---- MODULE Spec2Model ----
(***************************************************************************)
(* Request governance of the six-cities REST backend: the multi-tier rate  *)
(* limiter (RateLimiterMiddleware on top of express-rate-limit with a      *)
(* Redis or in-process store) and the cache-aside domain services          *)
(* (users, rent offers, cities) on top of DefaultCacheService and          *)
(* DefaultRedisClient.                                                     *)
(*                                                                         *)
(* The specifications of the module share its variables:                   *)
(*   SpecClassify  the pure tier classification of a request,              *)
(*   SpecRL        one limiter process, its stores, restarts and outages,  *)
(*   SpecRL2       two limiter processes in front of one store,            *)
(*   SpecUsers     DefaultUserService over the cache and the users,        *)
(*   SpecOffers    DefaultRentOfferService over the cache and the offers,  *)
(*   SpecCities    DefaultCityService over the cache and the cities,       *)
(*   SpecById      the by-id reads and writes of users and rent offers,    *)
(*   SpecCache     the reads of the three services under expiry, outages   *)
(*                 and undecodable entries,                                *)
(*   SpecWrites    every mutating call of the three services next to the   *)
(*                 reads that fill the keys it touches,                    *)
(*   SpecKeys      one call of generateKey, real and mock,                 *)
(*   SpecConfig    RestConfig on an environment with a non-positive        *)
(*                 RATE_LIMIT_* value, then requests,                      *)
(*   SpecOwnership the limiter and the user service on one Redis database, *)
(*   SpecExpiry    cache-aside reads while time passes (fair ticks),       *)
(*   SpecApp       the life cycle of RestApplication: init, the health     *)
(*                 routes behind the limiter, signals and shutdown,        *)
(*   SpecAppFair   SpecApp with the disconnects settling and the exit      *)
(*                 timer firing,                                           *)
(*   SpecFindOrCreate  find-or-create calls of two requests interleaved.   *)
(***************************************************************************)
EXTENDS Integers, Sequences, FiniteSets, TLC

VARIABLES
  \* ---- classification (SpecClassify)
  cPath,        \* req.path, a sequence of characters
  cMethod,      \* req.method
  cLimiter,     \* the limiter getRateLimiter selected, "none" before the call
  \* ---- key generation (SpecKeys)
  kArgs,        \* the arguments of generateKey: <<prefix, parts>>
  kKey,         \* <<the key of the real, the key of the mock cache service>>,
                \* empty before the call
  \* ---- rate limiter (SpecRL)
  connected,      \* per process: DefaultRedisClient.isConnectedFlag
  isInitialized,  \* per process: RateLimiterMiddleware.isInitialized
  storeBacked,    \* per process: the limiters were built with a RedisStore
  hits,           \* per store, tier, key: the stored totalHits (0: no entry)
  ttl,            \* per store, tier, key: ticks until the entry expires (0: none)
  handling,       \* per process, tier, key: admitted requests whose response
                  \* the limiter still listens to (skipSuccessfulRequests)
  decisions,      \* per store, tier, key: the decisions taken in the open window,
                  \* each with the process that took it
  nreq,           \* requests that have arrived so far
  config,         \* the RATE_LIMIT_* properties of RestConfig, and whether
                  \* its constructor has loaded and validated them
  \* ---- cache-aside services (SpecUsers, SpecOffers, SpecCities, SpecById)
  cache,        \* the Redis strings DefaultCacheService wrote: key -> JSON text
  users,        \* the users collection: id -> document
  offers,       \* the rentOffers collection: id -> document
  offerSeq,     \* rent offers created so far (ids are never handed out twice)
  cities,       \* the cities collection: id -> document
  nops,         \* writing service calls performed so far
  nreads,       \* reading service calls performed so far
  stage,        \* per entity: how far "read, write, read again" has come
  deleting,     \* the offers a deleteById has invalidated the caches of and
                \* not yet deleted
  \* ---- life cycle of the process (SpecApp)
  initLog,        \* RestApplication.init: the steps completed so far, in order
  dbConnected,    \* what databaseClient.isConnectedToDatabase() reports
  httpServer,     \* RestApplication.httpServer: "null", "listening", "closing"
  isShuttingDown, \* RestApplication.isShuttingDown
  shutdownPc,     \* where the shutdown routine stands
  shutdownLog,    \* the calls the shutdown routine has made, in order
  exitCode,       \* the argument of process.exit; "none" while the process runs
  response,       \* the answer to the last request to /health; NoResponse: none yet
  \* ---- find-or-create calls in flight (SpecFindOrCreate)
  pending         \* per caller: the call it is in and what it was returned

clsVars == <<cPath, cMethod, cLimiter, kArgs, kKey>>

rlVars == <<connected, isInitialized, storeBacked, hits, ttl,
            handling, decisions, nreq, config>>

cacheVars == <<cache, users, offers, offerSeq, cities, nops, nreads, stage,
               deleting>>

appVars == <<initLog, dbConnected, httpServer, isShuttingDown, shutdownPc,
             shutdownLog, exitCode, response, pending>>

vars == <<cPath, cMethod, cLimiter, kArgs, kKey, connected, isInitialized, storeBacked,
          hits, ttl, handling, decisions, nreq, config,
          cache, users, offers, offerSeq, cities, nops, nreads, stage,
          deleting, initLog, dbConnected, httpServer, isShuttingDown,
          shutdownPc, shutdownLog, exitCode, response, pending>>

----------------------------------------------------------------------------
(* Paths are character sequences, so that String.prototype.includes is a   *)
(* real substring test.                                                    *)

Seg ==
  [signin |-> <<"/", "s", "i", "g", "n", "i", "n">>,
   signup |-> <<"/", "s", "i", "g", "n", "u", "p">>,
   logout |-> <<"/", "l", "o", "g", "o", "u", "t">>,
   upload |-> <<"/", "u", "p", "l", "o", "a", "d">>,
   avatar |-> <<"/", "a", "v", "a", "t", "a", "r">>,
   preview |-> <<"/", "p", "r", "e", "v", "i", "e", "w">>,
   images |-> <<"/", "i", "m", "a", "g", "e", "s">>,
   favorites |-> <<"/", "f", "a", "v", "o", "r", "i", "t", "e", "s">>,
   comments |-> <<"/", "c", "o", "m", "m", "e", "n", "t", "s">>,
   rentOffers |-> <<"/", "r", "e", "n", "t", "O", "f", "f", "e", "r", "s">>,
   users |-> <<"/", "u", "s", "e", "r", "s">>,
   cities |-> <<"/", "c", "i", "t", "i", "e", "s">>,
   id |-> <<"/", "4", "2">>]

\* the path segments requests are built from
Segments == { Seg[f] : f \in DOMAIN Seg }

\* longest path, in segments
MaxSegs == 2

RECURSIVE PathsOfLen(_)
PathsOfLen(n) ==
  IF n = 0 THEN { <<>> }
  ELSE { p \o s : p \in PathsOfLen(n - 1), s \in Segments }

Paths == UNION { PathsOfLen(n) : n \in 1..MaxSegs }

Methods == { "GET", "POST", "PATCH", "DELETE" }

\* String.prototype.includes
includes(path, pat) ==
  \E i \in 1..(Len(path) - Len(pat) + 1) :
    \A j \in 1..Len(pat) : path[i + j - 1] = pat[j]

isAuthEndpointSkipsLogout(path) ==
  includes(path, Seg.signin) \/ includes(path, Seg.signup)

isAuthEndpoint(path) ==
  \/ includes(path, Seg.signin)
  \/ includes(path, Seg.signup)
  \/ includes(path, Seg.logout)

isUploadEndpoint(path) ==
  \/ includes(path, Seg.upload)
  \/ includes(path, Seg.avatar)
  \/ includes(path, Seg.preview)
  \/ includes(path, Seg.images)

isUserApiEndpoint(path, method) ==
  IF includes(path, Seg.favorites) \/ includes(path, Seg.comments) THEN TRUE
  ELSE IF includes(path, Seg.rentOffers) \/ includes(path, Seg.users)
       THEN method # "GET"
       ELSE FALSE

\* getRateLimiter with the user-API test ahead of the auth and upload tests
getRateLimiterUserApiFirst(path, method) ==
  IF isUserApiEndpoint(path, method) THEN "userApi"
  ELSE IF isAuthEndpoint(path) THEN "auth"
  ELSE IF isUploadEndpoint(path) THEN "upload"
  ELSE "public"

\* the tier limiter execute() hands the request to (isInitialized holds there)
getRateLimiter(path, method) ==
  IF isAuthEndpoint(path) THEN "auth"
  ELSE IF isUploadEndpoint(path) THEN "upload"
  ELSE IF isUserApiEndpoint(path, method) THEN "userApi"
  ELSE "public"

Tiers == { "public", "auth", "upload", "userApi" }

----------------------------------------------------------------------------
(* The rate limiter: processes, stores, requests.                          *)

Procs == { "p1", "p2" }

\* a counter lives in the shared Redis or in the memory of one process
Stores == { "redis" } \cup Procs

IPs == { "ip1", "ip2" }

\* principals an Authorization header can name; "none": no token
Users == { "u1" }

Keys == IPs \cup Users

\* most requests that arrive in one behaviour
MaxRequests == 3

\* RATE_LIMIT_WINDOW_MS, in ticks of the model's clock
WindowTicks == 2

\* RATE_LIMIT_MAX_PUBLIC, RATE_LIMIT_MAX_AUTH, RATE_LIMIT_MAX_UPLOAD and
\* RATE_LIMIT_MAX_USER_API as configured for the model
MaxPublic == 2
MaxAuth == 1
MaxUpload == 1
MaxUserApi == 2

\* the max option each tier limiter is built with
max(t) ==
  CASE t = "public" -> config.RATE_LIMIT_MAX_PUBLIC
    [] t = "auth" -> config.RATE_LIMIT_MAX_AUTH
    [] t = "upload" -> config.RATE_LIMIT_MAX_UPLOAD
    [] t = "userApi" -> config.RATE_LIMIT_MAX_USER_API

\* the windowMs option the four limiters are built with
windowMs == config.RATE_LIMIT_WINDOW_MS

\* the properties a default environment gives, loaded and validated
DefaultConfig ==
  [loaded |-> TRUE,
   RATE_LIMIT_WINDOW_MS |-> WindowTicks,
   RATE_LIMIT_MAX_PUBLIC |-> MaxPublic,
   RATE_LIMIT_MAX_AUTH |-> MaxAuth,
   RATE_LIMIT_MAX_UPLOAD |-> MaxUpload,
   RATE_LIMIT_MAX_USER_API |-> MaxUserApi]

\* every tier built with skipSuccessfulRequests: true
skipSuccessfulRequestsAll(t) == TRUE

\* RATE_LIMITS[tier].skipSuccessfulRequests
skipSuccessfulRequests(t) == t = "auth"

\* the static routes registered ahead of the rate limiter
MiddlewareOrderStaticFirst ==
  << "helmet", "staticUpload", "static", "rateLimiter", "httpLogger", "json",
     "urlencoded", "compression", "parseToken", "cors" >>

\* app-level middleware in the order _initMiddleware registers it
MiddlewareOrder ==
  << "helmet", "rateLimiter", "httpLogger", "json", "urlencoded",
     "compression", "staticUpload", "parseToken", "static", "cors" >>

IndexOf(seq, x) == CHOOSE i \in 1..Len(seq) : seq[i] = x

\* req.tokenPayload as the rate limiter sees it: set only by ParseTokenMiddleware
tokenPayload(req) ==
  IF IndexOf(MiddlewareOrder, "parseToken") < IndexOf(MiddlewareOrder, "rateLimiter")
  THEN req.token
  ELSE "none"

\* a key generator that ignores who sent the request
keyGeneratorShared(t, req) == "ip1"

\* the key a tier limiter counts the request under: USER_API.keyGenerator,
\* and the library default (the client address) for the other tiers
keyGenerator(t, req) ==
  IF t = "userApi" /\ tokenPayload(req) # "none"
  THEN tokenPayload(req)
  ELSE req.ip

\* the requests of the model: one route per rule of the classification
RLPaths ==
  { Seg.cities,                    \* public
    Seg.rentOffers,                \* GET: public, other methods: user API
    Seg.users \o Seg.signin,         \* auth (and user API for POST)
    Seg.users \o Seg.id \o Seg.avatar  \* upload (and user API for POST)
  }

Requests ==
  { r \in [path : RLPaths, method : {"GET", "POST"}, ip : IPs,
           token : Users \cup {"none"}] :
      /\ (r.path = Seg.cities => r.method = "GET")
      /\ (r.path # Seg.cities /\ r.path # Seg.rentOffers => r.method = "POST")
      /\ (r.token # "none" => r.path = Seg.rentOffers /\ r.method = "POST") }

CK == Stores \X Tiers \X Keys
PK == Procs \X Tiers \X Keys

\* createStoreConfig with the connection test dropped
createStoreConfigAlways(p) == TRUE

\* createStoreConfig: a RedisStore iff the client reports connected
createStoreConfig(p) == connected[p]

\* every RedisStore built with the one prefix rl:
rlPrefixShared(t) == "rl:"

\* the prefix option of the RedisStore of a tier: rl:${prefix}:
rlPrefix(t) ==
  "rl:" \o (CASE t = "public" -> "public"
              [] t = "auth" -> "auth"
              [] t = "upload" -> "upload"
              [] t = "userApi" -> "user-api") \o ":"

\* where the counter x = <<store, tier, key>> lives: the Redis key prefix + key
\* of a RedisStore, the entry of the key in the memory store that rateLimit
\* creates for each limiter built without a store
storeKey ==
  [x \in CK |->
     IF x[1] = "redis" THEN <<"redis", rlPrefix(x[2]) \o x[3]>> ELSE x]

\* the counters of the model that live at the store key of counter y
countersAt == [y \in CK |-> { x \in CK : storeKey[x] = storeKey[y] }]

\* the store the limiters of process p count in
StoreOf(p) == IF storeBacked[p] THEN "redis" ELSE p

\* the store the limiters of p count in once initializeRateLimiters has run
StoreAfterInit(p) ==
  IF isInitialized[p] THEN StoreOf(p)
  ELSE IF createStoreConfig(p) THEN "redis" ELSE p

\* initializeRateLimiters that builds the limiters and leaves the flag unset
initializeRateLimitersUnflagged(p) ==
  /\ storeBacked' = [storeBacked EXCEPT ![p] = createStoreConfig(p)]
  /\ UNCHANGED isInitialized

\* initializeRateLimiters
initializeRateLimiters(p) ==
  IF isInitialized[p]
  THEN UNCHANGED <<isInitialized, storeBacked>>
  ELSE /\ storeBacked' = [storeBacked EXCEPT ![p] = createStoreConfig(p)]
       /\ isInitialized' = [isInitialized EXCEPT ![p] = TRUE]

\* an increment that stores nothing when a count is already there
incrementLost(h) == IF h >= 1 THEN h ELSE h + 1

\* the store's increment (INCR in the RedisStore script, totalHits++ in memory)
increment(h) == h + 1

\* ---- the system of record and the cache before any service call ----------

\* the process whose domain services are followed
Self == "p1"

UserIds == {"u1", "u2"}
OfferOrder == <<"o1", "o2">>
OfferIds == { OfferOrder[i] : i \in 1..Len(OfferOrder) }
CityIds == {"c1", "c2", "c3"}

\* DEFAULT_AVATAR_FILE_NAME
DEFAULT_AVATAR_FILE_NAME == "default-avatar.svg"

\* a mongoose document of the users collection
UserDoc(id, email, name, avatarPath) ==
  [id |-> id, email |-> email, name |-> name, avatarPath |-> avatarPath,
   hydrated |-> TRUE]

\* a mongoose document of the rentOffers collection
OfferDoc(id, title, cityId, userId, isPremium, commentCount) ==
  [id |-> id, title |-> title, cityId |-> cityId, userId |-> userId,
   isPremium |-> isPremium, commentCount |-> commentCount, hydrated |-> TRUE]

\* a mongoose document of the cities collection
CityDoc(id, name) == [id |-> id, name |-> name, hydrated |-> TRUE]

\* the database the server is started on: one user, two cities, one offer
SeedUsers == [x \in {"u1"} |-> UserDoc("u1", "e1", "n1", DEFAULT_AVATAR_FILE_NAME)]
SeedCities ==
  [x \in {"c1", "c2"} |->
     IF x = "c1" THEN CityDoc("c1", "Paris") ELSE CityDoc("c2", "Amsterdam")]
SeedOffers == [x \in {"o1"} |-> OfferDoc("o1", "t1", "c1", "u1", FALSE, 0)]

\* the state before any service call: the cache holds no key
CacheIdle ==
  /\ cache = <<>>
  /\ users = SeedUsers
  /\ offers = SeedOffers
  /\ offerSeq = 1
  /\ cities = SeedCities
  /\ nops = 0
  /\ nreads = 0
  /\ stage = [x \in UserIds \cup OfferIds \cup {"cities"} |-> 0]
  /\ deleting = {}

\* the requests that run a find-or-create call at the same time
Callers == {"r1", "r2"}

\* a caller that is in no call
NoCall == [pc |-> "idle", key |-> "", returned |-> "nothing"]

\* no request to /health has been answered
NoResponse == [route |-> "none", status |-> 0, body |-> "none"]

\* RestApplication right after its construction: init has not run
AppConstructed ==
  /\ initLog = <<>>
  /\ dbConnected = FALSE
  /\ httpServer = "null"
  /\ isShuttingDown = FALSE
  /\ shutdownPc = "idle"
  /\ shutdownLog = <<>>
  /\ exitCode = "none"
  /\ response = NoResponse
  /\ pending = [r \in Callers |-> NoCall]

\* RestApplication.init after _initDb and _initCache have returned
AppAfterInitCache ==
  /\ initLog = <<"_initDb", "_initCache">>
  /\ dbConnected = TRUE
  /\ httpServer = "null"
  /\ isShuttingDown = FALSE
  /\ shutdownPc = "idle"
  /\ shutdownLog = <<>>
  /\ exitCode = "none"
  /\ response = NoResponse
  /\ pending = [r \in Callers |-> NoCall]

\* the state right after the process is constructed, before any request
RLIdle ==
  /\ connected = [p \in Procs |-> FALSE]
  /\ isInitialized = [p \in Procs |-> FALSE]
  /\ storeBacked = [p \in Procs |-> FALSE]
  /\ hits = [x \in CK |-> 0]
  /\ ttl = [x \in CK |-> 0]
  /\ handling = [x \in PK |-> 0]
  /\ decisions = [x \in CK |-> <<>>]
  /\ nreq = 0
  /\ config = DefaultConfig

\* RestApplication.init up to _initCache: the connect attempt succeeded or not;
\* the RateLimiterMiddleware is constructed and not yet initialized
InitServer ==
  /\ connected \in { f \in [Procs -> BOOLEAN] : ~f["p2"] }
  /\ isInitialized = [p \in Procs |-> FALSE]
  /\ storeBacked = [p \in Procs |-> FALSE]
  /\ hits = [x \in CK |-> 0]
  /\ ttl = [x \in CK |-> 0]
  /\ handling = [x \in PK |-> 0]
  /\ decisions = [x \in CK |-> <<>>]
  /\ nreq = 0
  /\ config = DefaultConfig
  /\ cPath = <<>> /\ cMethod = "GET" /\ cLimiter = "none"
  /\ kArgs = <<"", <<>>>> /\ kKey = <<>>
  /\ CacheIdle
  /\ AppAfterInitCache

\* the process exits and is started again: its memory is lost, Redis is not
Restart(p) ==
  /\ \E c \in BOOLEAN : connected' = [connected EXCEPT ![p] = c]
  /\ isInitialized' = [isInitialized EXCEPT ![p] = FALSE]
  /\ storeBacked' = [storeBacked EXCEPT ![p] = FALSE]
  /\ hits' = [x \in CK |-> IF x[1] = p THEN 0 ELSE hits[x]]
  /\ ttl' = [x \in CK |-> IF x[1] = p THEN 0 ELSE ttl[x]]
  /\ decisions' = [x \in CK |-> IF x[1] = p THEN <<>> ELSE decisions[x]]
  /\ handling' = [x \in PK |-> IF x[1] = p THEN 0 ELSE handling[x]]
  /\ UNCHANGED <<nreq, clsVars, appVars, cacheVars, config>>

\* the 'connect' event of the ioredis client (a reconnect)
RedisConnect(p) ==
  /\ ~connected[p]
  /\ connected' = [connected EXCEPT ![p] = TRUE]
  /\ UNCHANGED <<isInitialized, storeBacked, hits, ttl, handling,
                 decisions, nreq, clsVars, appVars, cacheVars, config>>

\* the 'error' or 'close' event of the ioredis client
RedisDrop(p) ==
  /\ connected[p]
  /\ connected' = [connected EXCEPT ![p] = FALSE]
  /\ UNCHANGED <<isInitialized, storeBacked, hits, ttl, handling,
                 decisions, nreq, clsVars, appVars, cacheVars, config>>

\* RateLimiterMiddleware.initialize
Initialize(p) ==
  /\ initializeRateLimiters(p)
  /\ UNCHANGED <<connected, hits, ttl, handling, decisions, nreq, clsVars, appVars, cacheVars, config>>

\* RateLimiterMiddleware.execute and the tier limiter it hands the request to:
\* the limiters are built on first use, the request is classified, its key is
\* resolved, store.increment counts it and totalHits is compared with max.
\* getRateLimiter returns null while isInitialized is false, and execute then
\* calls next() without a limiter. When the RedisStore command is refused the
\* limiter passes the error to next(): the request is neither counted nor
\* admitted. A window that is not positive has elapsed when the entry is
\* written: the next request finds no entry.
execute(p, req) ==
  /\ nreq < MaxRequests
  /\ nreq' = nreq + 1
  /\ initializeRateLimiters(p)
  /\ LET t == IF isInitialized'[p] THEN getRateLimiter(req.path, req.method)
              ELSE "none"
         k == keyGenerator(t, req)
         s == StoreAfterInit(p)
         totalHits == increment(hits[<<s, t, k>>])
         allow == ~(totalHits > max(t))
     IN IF t = "none" \/ (s = "redis" /\ ~connected[p])
        THEN UNCHANGED <<hits, ttl, decisions, handling>>
        ELSE /\ hits' = [x \in countersAt[<<s, t, k>>] |->
                           IF windowMs > 0 THEN totalHits ELSE 0] @@ hits
             /\ ttl' = [x \in countersAt[<<s, t, k>>] |->
                          IF windowMs <= 0 THEN 0
                          ELSE IF ttl[<<s, t, k>>] = 0 THEN windowMs
                          ELSE ttl[<<s, t, k>>]] @@ ttl
             /\ decisions' =
                  [x \in countersAt[<<s, t, k>>] |->
                     IF windowMs <= 0 THEN <<>>
                     ELSE Append(decisions[<<s, t, k>>],
                                 [by |-> p,
                                  d |-> IF allow THEN "allow" ELSE "reject"])]
                  @@ decisions
             /\ handling' = [handling EXCEPT ![<<p, t, k>>] =
                               IF allow /\ skipSuccessfulRequests(t)
                               THEN @ + 1 ELSE @]

\* a request that arrives at the middleware and is for no health route
Execute(p, req) ==
  /\ execute(p, req)
  /\ UNCHANGED <<connected, clsVars, appVars, cacheVars, config>>

\* the response of an admitted request finishes; ok: its status is below 400.
\* With skipSuccessfulRequests the limiter then calls store.decrement.
Finish(p, t, k, ok) ==
  /\ handling[<<p, t, k>>] > 0
  /\ handling' = [handling EXCEPT ![<<p, t, k>>] = @ - 1]
  /\ LET s == StoreOf(p)
     IN IF skipSuccessfulRequests(t) /\ ok
        THEN IF storeBacked[p]
             THEN IF connected[p]
                  THEN hits' = [x \in countersAt[<<s, t, k>>] |->
                                  hits[<<s, t, k>>] - 1] @@ hits
                  ELSE UNCHANGED hits
             ELSE hits' = [hits EXCEPT ![<<s, t, k>>] =
                             IF @ > 0 THEN @ - 1 ELSE @]
        ELSE UNCHANGED hits
  /\ UNCHANGED <<connected, isInitialized, storeBacked, ttl, decisions, nreq,
                 clsVars, appVars, cacheVars, config>>

\* one tick of the clock: entries whose window has elapsed are removed
Tick ==
  /\ \E x \in CK : ttl[x] > 0
  /\ ttl' = [x \in CK |-> IF ttl[x] > 0 THEN ttl[x] - 1 ELSE 0]
  /\ hits' = [x \in CK |-> IF ttl[x] = 1 THEN 0 ELSE hits[x]]
  /\ decisions' = [x \in CK |-> IF ttl[x] = 1 THEN <<>> ELSE decisions[x]]
  /\ UNCHANGED <<connected, isInitialized, storeBacked, handling, nreq, clsVars, appVars,
                 cacheVars, config>>

\* one server process in front of the store
NextRL ==
  \/ Restart("p1")
  \/ RedisConnect("p1")
  \/ RedisDrop("p1")
  \/ Initialize("p1")
  \/ \E req \in Requests : Execute("p1", req)
  \/ \E t \in Tiers, k \in Keys, ok \in BOOLEAN : Finish("p1", t, k, ok)
  \/ Tick

SpecRL == InitServer /\ [][NextRL]_vars

\* two server processes in front of one store, each started with or without
\* a connection to it
InitRL2 ==
  /\ connected \in [Procs -> BOOLEAN]
  /\ isInitialized = [p \in Procs |-> FALSE]
  /\ storeBacked = [p \in Procs |-> FALSE]
  /\ hits = [x \in CK |-> 0]
  /\ ttl = [x \in CK |-> 0]
  /\ handling = [x \in PK |-> 0]
  /\ decisions = [x \in CK |-> <<>>]
  /\ nreq = 0
  /\ config = DefaultConfig
  /\ cPath = <<>> /\ cMethod = "GET" /\ cLimiter = "none"
  /\ kArgs = <<"", <<>>>> /\ kKey = <<>>
  /\ CacheIdle
  /\ AppAfterInitCache

\* the requests of one client
RequestsOfOne == { r \in Requests : r.ip = "ip1" /\ r.token = "none" }

NextRL2 ==
  \/ \E p \in Procs : Initialize(p)
  \/ \E p \in Procs, req \in RequestsOfOne : Execute(p, req)
  \/ \E p \in Procs, t \in Tiers, k \in Keys, ok \in BOOLEAN : Finish(p, t, k, ok)
  \/ Tick

SpecRL2 == InitRL2 /\ [][NextRL2]_vars

----------------------------------------------------------------------------
\* ---- DefaultRedisClient and DefaultCacheService --------------------------

MaxOps == 2
MaxReads == 4

\* the null of a lookup, and a value that was found
null == <<>>
Some(v) == <<v>>

\* CACHE_TTL_USERS, CACHE_TTL_CITIES and CACHE_TTL_RENT_OFFERS, in seconds, as
\* the environment sets them for the model: the CACHE_TTL of UserCacheService
\* and DefaultUserService, of CityCacheService and of RentOfferCacheService
CACHE_TTL_USERS == 3
CACHE_TTL_CITIES == 2
CACHE_TTL_RENT_OFFERS == 2

\* DefaultRedisClient.isConnected of the followed process
isConnected == connected[Self]

\* DefaultRedisClient.get without the test of the connection
redisGetUnguarded(c, key) == IF key \in DOMAIN c THEN Some(c[key]) ELSE null

\* DefaultRedisClient.get: null without a live connection
redisGet(c, key) ==
  IF ~isConnected THEN null
  ELSE IF key \in DOMAIN c THEN Some(c[key]) ELSE null

\* DefaultRedisClient.set: nothing without a connection; setex when
\* ttlSeconds is truthy, and a plain set, an entry that never expires (ttl -1),
\* when it is 0; setex refuses a negative ttl and the error is caught
redisSet(c, key, value, ttlSeconds) ==
  IF ~isConnected \/ ttlSeconds < 0 THEN c
  ELSE [x \in DOMAIN c \cup {key} |->
          IF x = key
          THEN [valid |-> value.valid, json |-> value.json,
                ttl |-> IF ttlSeconds # 0 THEN ttlSeconds ELSE -1]
          ELSE c[x]]

\* DefaultRedisClient.del: nothing without a connection
redisDel(c, key) ==
  IF ~isConnected THEN c
  ELSE [x \in DOMAIN c \ {key} |-> c[x]]

\* DefaultRedisClient.flushdb
redisFlushdb(c) == IF ~isConnected THEN c ELSE <<>>

\* document.toObject / toJSON: the plain data of a document
toObject(doc) == [doc EXCEPT !.hydrated = FALSE]

\* JSON.stringify of an array of documents calls toJSON on each of them
toJSONList(docs) == [i \in 1..Len(docs) |-> toObject(docs[i])]

\* a text cut short, which no JSON.parse accepts
stringifyTruncated(value) == [valid |-> FALSE, json |-> value]

\* JSON.stringify: the text of a plain value
stringify(value) == [valid |-> TRUE, json |-> value]

\* DefaultCacheService.get handing out the stored text without parsing it
cacheGetRaw(c, key) ==
  LET value == redisGet(c, key)
  IN IF value = null THEN null ELSE Some(value[1].json)

\* DefaultCacheService.get: JSON.parse of the stored text; a missing key and
\* a text that does not parse both give null
cacheGet(c, key) ==
  LET value == redisGet(c, key)
  IN IF value = null THEN null
     ELSE IF value[1].valid THEN Some(value[1].json) ELSE null

\* DefaultCacheService.set
cacheSet(c, key, value, ttlSeconds) ==
  redisSet(c, key, stringify(value), ttlSeconds)

\* DefaultCacheService.delete
cacheDelete(c, key) == redisDel(c, key)

\* DefaultCacheService.delete called for each key of a list in turn
RECURSIVE cacheDeleteEach(_, _)
cacheDeleteEach(c, keys) ==
  IF keys = <<>> THEN c
  ELSE cacheDeleteEach(cacheDelete(c, Head(keys)), Tail(keys))

\* parts.join(':')
RECURSIVE join(_)
join(parts) ==
  IF parts = <<>> THEN ""
  ELSE IF Len(parts) = 1 THEN parts[1]
  ELSE parts[1] \o ":" \o join(Tail(parts))

\* DefaultCacheService.generateKey
generateKey(prefix, parts) == prefix \o ":" \o join(parts)

\* a reading service call is counted
CountRead == nreads < MaxReads /\ nreads' = nreads + 1 /\ UNCHANGED nops

\* a writing service call is counted
CountWrite == nops < MaxOps /\ nops' = nops + 1 /\ UNCHANGED nreads

\* "read, write, read again" of one entity: 0 nothing yet, 1 the entity was
\* read through the cache, 2 it was then updated with the store reachable,
\* 3 it was read again after that update
stageAfterRead(s) ==
  IF ~isConnected THEN s
  ELSE IF s = 0 THEN 1 ELSE IF s = 2 THEN 3 ELSE s

stageAfterUpdate(s) ==
  IF ~isConnected THEN 0
  ELSE IF s \in {1, 3} THEN 2 ELSE s

stageAfterOtherWrite(s) == IF ~isConnected THEN 0 ELSE s

----------------------------------------------------------------------------
\* ---- UserCacheService and DefaultUserService -------------------------------

USER_PROFILE_KEY == "user:profile"
USER_AVATAR_KEY == "user:avatar"
USER_EXISTS_KEY == "user:exists"

getProfileKey(userId) == generateKey(USER_PROFILE_KEY, <<userId>>)
getProfileByEmailKey(email) == generateKey(USER_PROFILE_KEY, <<"email", email>>)
getAvatarKey(userId) == generateKey(USER_AVATAR_KEY, <<userId>>)
getExistsKey(userId) == generateKey(USER_EXISTS_KEY, <<userId>>)

\* an invalidateProfile that deletes nothing
invalidateProfileSkipped(c, userId) == c

invalidateProfile(c, userId) == cacheDelete(c, getProfileKey(userId))

\* the avatar entry patched in place instead of deleted
invalidateAvatarInPlace(c, userId) ==
  cacheSet(c, getAvatarKey(userId), [avatarPath |-> "patched"], CACHE_TTL_USERS)

\* UserCacheService.invalidateAvatar
invalidateAvatar(c, userId) == cacheDelete(c, getAvatarKey(userId))
invalidateExists(c, userId) == cacheDelete(c, getExistsKey(userId))
invalidateByEmail(c, email) == cacheDelete(c, getProfileByEmailKey(email))

\* DefaultUserService.invalidateUserCaches: profile, avatar and exists keys
invalidateUserCaches(c, userId) ==
  invalidateExists(invalidateAvatar(invalidateProfile(c, userId), userId), userId)

\* the inputs of the user service
Emails == {"e1", "e2"}
AvatarPaths == {DEFAULT_AVATAR_FILE_NAME, "a1.png"}
CreateUserDtos == [email : Emails, name : {"n1"}]
UpdateUserDtos == [name : {"n1", "n2"}]

\* userModel.findOne({ email })
userByEmail(email) ==
  IF \E id \in DOMAIN users : users[id].email = email
  THEN Some(users[CHOOSE id \in DOMAIN users : users[id].email = email])
  ELSE null

\* userModel.findById
userById(userId) == IF userId \in DOMAIN users THEN Some(users[userId]) ELSE null

\* what findById returns: the cached profile or the document of the database
findByIdReturns(userId) ==
  LET cachedUser == cacheGet(cache, getProfileKey(userId))
  IN IF cachedUser # null THEN cachedUser ELSE userById(userId)

\* what findByEmail returns
findByEmailReturns(email) ==
  LET cachedUser == cacheGet(cache, getProfileByEmailKey(email))
  IN IF cachedUser # null THEN cachedUser ELSE userByEmail(email)

\* the cache after findByEmail: a miss stores the user by email and by id
findByEmailCaches(c, email) ==
  LET cachedUser == cacheGet(c, getProfileByEmailKey(email))
      user == userByEmail(email)
  IN IF cachedUser # null \/ user = null THEN c
     ELSE cacheSet(cacheSet(c, getProfileByEmailKey(email), toObject(user[1]),
                       CACHE_TTL_USERS),
                   getProfileKey(user[1].id), toObject(user[1]), CACHE_TTL_USERS)

\* the test of the cached existence as a test of truthiness
existsIsCachedTruthy(c, documentId) ==
  LET cachedExists == cacheGet(c, getExistsKey(documentId))
  IN cachedExists # null /\ cachedExists[1] = TRUE

\* the test 'cachedExists !== null' of DefaultUserService.exists
existsIsCached(c, documentId) == cacheGet(c, getExistsKey(documentId)) # null

\* DefaultUserService.exists: a cached false is a hit as well
UserExists(documentId) ==
  /\ CountRead
  /\ LET cacheKey == getExistsKey(documentId)
     IN IF existsIsCached(cache, documentId) THEN UNCHANGED cache
        ELSE cache' = cacheSet(cache, cacheKey, documentId \in DOMAIN users,
                                 CACHE_TTL_USERS \div 4)
  /\ UNCHANGED <<users, offers, offerSeq, cities, stage, deleting, rlVars, clsVars, appVars>>

\* the users collection after userModel.create with the id the database chose
usersAfterCreate(id, dto) ==
  [x \in DOMAIN users \cup {id} |->
     IF x = id THEN UserDoc(id, dto.email, dto.name, DEFAULT_AVATAR_FILE_NAME)
     ELSE users[x]]

\* DefaultUserService.create; the email index of the collection is unique
UserCreate(dto) ==
  /\ CountWrite
  /\ userByEmail(dto.email) = null
  /\ \E id \in UserIds \ DOMAIN users :
       /\ users' = usersAfterCreate(id, dto)
       /\ cache' = invalidateUserCaches(cache, id)
  /\ UNCHANGED <<offers, offerSeq, cities, stage, deleting, rlVars, clsVars, appVars>>

\* DefaultUserService.findById
UserFindById(userId) ==
  /\ CountRead
  /\ LET cacheKey == getProfileKey(userId)
         cachedUser == cacheGet(cache, cacheKey)
         user == userById(userId)
     IN IF cachedUser # null \/ user = null THEN UNCHANGED cache
        ELSE cache' = cacheSet(cache, cacheKey, toObject(user[1]), CACHE_TTL_USERS)
  /\ stage' = [stage EXCEPT ![userId] =
                 IF findByIdReturns(userId) = null THEN @ ELSE stageAfterRead(@)]
  /\ UNCHANGED <<users, offers, offerSeq, cities, deleting, rlVars, clsVars, appVars>>

\* DefaultUserService.findByEmail
UserFindByEmail(email) ==
  /\ CountRead
  /\ cache' = findByEmailCaches(cache, email)
  /\ UNCHANGED <<users, offers, offerSeq, cities, stage, deleting, rlVars, clsVars, appVars>>

\* DefaultUserService.findOrCreate: findByEmail, and create when it found none
UserFindOrCreate(dto) ==
  /\ CountWrite
  /\ IF findByEmailReturns(dto.email) # null
     THEN /\ cache' = findByEmailCaches(cache, dto.email)
          /\ UNCHANGED users
     ELSE \E id \in UserIds \ DOMAIN users :
            /\ users' = usersAfterCreate(id, dto)
            /\ cache' = invalidateUserCaches(findByEmailCaches(cache, dto.email), id)
  /\ UNCHANGED <<offers, offerSeq, cities, stage, deleting, rlVars, clsVars, appVars>>

\* DefaultUserService.updateById: the caches are invalidated when a document
\* was found and updated
UserUpdateById(userId, dto) ==
  /\ CountWrite
  /\ IF userId \in DOMAIN users
     THEN /\ users' = [users EXCEPT ![userId].name = dto.name]
          /\ cache' = invalidateUserCaches(cache, userId)
          /\ stage' = [stage EXCEPT ![userId] = stageAfterUpdate(@)]
     ELSE UNCHANGED <<users, cache, stage>>
  /\ UNCHANGED <<offers, offerSeq, cities, deleting, rlVars, clsVars, appVars>>

\* DefaultUserService.getAvatarInfo
UserGetAvatarInfo(userId) ==
  /\ CountRead
  /\ LET cacheKey == getAvatarKey(userId)
         cachedAvatar == cacheGet(cache, cacheKey)
         user == userById(userId)
     IN IF cachedAvatar # null \/ user = null THEN UNCHANGED cache
        ELSE cache' = cacheSet(cache, cacheKey, [avatarPath |-> user[1].avatarPath],
                                 CACHE_TTL_USERS \div 2)
  /\ UNCHANGED <<users, offers, offerSeq, cities, stage, deleting, rlVars, clsVars, appVars>>

\* DefaultUserService.updateAvatar: avatar and profile keys are invalidated,
\* whether or not a document was found
UserUpdateAvatar(userId, avatarPath) ==
  /\ CountWrite
  /\ users' = IF userId \in DOMAIN users
              THEN [users EXCEPT ![userId].avatarPath = avatarPath]
              ELSE users
  /\ cache' = invalidateProfile(invalidateAvatar(cache, userId), userId)
  /\ stage' = [stage EXCEPT ![userId] = stageAfterOtherWrite(@)]
  /\ UNCHANGED <<offers, offerSeq, cities, deleting, rlVars, clsVars, appVars>>

\* DefaultUserService.clearAllUserCaches: cacheService.clear() sends FLUSHDB
\* over the one connection the RedisStore of the rate limiter uses as well, so
\* every key of the database goes, the rl:* counters included
UserClearAllUserCaches ==
  /\ CountWrite
  /\ cache' = redisFlushdb(cache)
  /\ hits' = [x \in CK |-> IF isConnected /\ x[1] = "redis" THEN 0 ELSE hits[x]]
  /\ ttl' = [x \in CK |-> IF isConnected /\ x[1] = "redis" THEN 0 ELSE ttl[x]]
  /\ decisions' = [x \in CK |->
                     IF isConnected /\ x[1] = "redis" THEN <<>> ELSE decisions[x]]
  /\ UNCHANGED <<users, offers, offerSeq, cities, stage, deleting, connected,
                 isInitialized, storeBacked, handling, nreq, config, clsVars, appVars>>

NextUsers ==
  \/ RedisConnect(Self)
  \/ RedisDrop(Self)
  \/ \E id \in UserIds : UserExists(id)
  \/ \E dto \in CreateUserDtos : UserCreate(dto)
  \/ \E id \in UserIds : UserFindById(id)
  \/ \E email \in Emails : UserFindByEmail(email)
  \/ \E dto \in CreateUserDtos : UserFindOrCreate(dto)
  \/ \E id \in UserIds, dto \in UpdateUserDtos : UserUpdateById(id, dto)
  \/ \E id \in UserIds : UserGetAvatarInfo(id)
  \/ \E id \in UserIds, path \in AvatarPaths : UserUpdateAvatar(id, path)
  \/ UserClearAllUserCaches

SpecUsers == InitServer /\ [][NextUsers]_vars

----------------------------------------------------------------------------
\* ---- CityCacheService and DefaultCityService -------------------------------

CITY_LIST_KEY == "cities:list"
CITY_INDIVIDUAL_KEY == "city:individual"

\* MAX_CITIES_COUNT of city.constants
MAX_CITIES_COUNT == 6

getListKey == CITY_LIST_KEY
getByIdKey(cityId) == generateKey(CITY_INDIVIDUAL_KEY, <<cityId>>)
getByNameKey(cityName) == generateKey(CITY_INDIVIDUAL_KEY, <<"name", cityName>>)

\* an invalidateList that deletes nothing
invalidateListSkipped(c) == c

\* CityCacheService.invalidateList
invalidateList(c) == cacheDelete(c, CITY_LIST_KEY)

CityNames == {"Paris", "Rotterdam"}
CreateCityDtos == [name : CityNames]

\* the order in which the collection returns its documents
CityOrder == <<"c1", "c2", "c3">>

\* cityModel.findById
cityById(cityId) == IF cityId \in DOMAIN cities THEN Some(cities[cityId]) ELSE null

\* cityModel.findOne({ name })
cityByName(cityName) ==
  IF \E id \in DOMAIN cities : cities[id].name = cityName
  THEN Some(cities[CHOOSE id \in DOMAIN cities : cities[id].name = cityName])
  ELSE null

\* the first n elements of a sequence
take(s, n) == SubSeq(s, 1, IF n < Len(s) THEN n ELSE Len(s))

\* $size of the $lookup: the rent offers of the city
rentOfferCount(cityId) ==
  Cardinality({ o \in DOMAIN offers : offers[o].cityId = cityId })

\* the documents of the given ids, in the order of the sequence ids
RECURSIVE selectIn(_, _)
selectIn(ids, S) ==
  IF ids = <<>> THEN <<>>
  ELSE IF Head(ids) \in S THEN <<Head(ids)>> \o selectIn(Tail(ids), S)
  ELSE selectIn(Tail(ids), S)

\* a stable sort of ids by a key, largest first
RECURSIVE sortDown(_, _)
sortDown(ids, keyOf) ==
  IF ids = <<>> THEN <<>>
  ELSE LET i == CHOOSE i \in 1..Len(ids) :
                  /\ \A j \in 1..Len(ids) : keyOf[ids[j]] <= keyOf[ids[i]]
                  /\ \A j \in 1..(i - 1) : keyOf[ids[j]] < keyOf[ids[i]]
           rest == [j \in 1..(Len(ids) - 1) |-> IF j < i THEN ids[j] ELSE ids[j + 1]]
       IN <<ids[i]>> \o sortDown(rest, keyOf)

\* the aggregate of DefaultCityService.find: $limit, then $sort by
\* rentOfferCount descending
cityAggregate ==
  LET limited == take(selectIn(CityOrder, DOMAIN cities), MAX_CITIES_COUNT)
      sorted == sortDown(limited, [id \in DOMAIN cities |-> rentOfferCount(id)])
  IN [i \in 1..Len(sorted) |->
        [id |-> sorted[i], name |-> cities[sorted[i]].name,
         rentOfferCount |-> rentOfferCount(sorted[i]), hydrated |-> FALSE]]

\* what DefaultCityService.find returns
cityFindReturns ==
  LET cachedCities == cacheGet(cache, getListKey)
  IN IF cachedCities # null THEN cachedCities[1] ELSE cityAggregate

\* DefaultCityService.create; the database gives the document a fresh id
CityCreate(dto) ==
  /\ CountWrite
  /\ cityByName(dto.name) = null
  /\ \E id \in CityIds \ DOMAIN cities :
       cities' = [x \in DOMAIN cities \cup {id} |->
                    IF x = id THEN CityDoc(id, dto.name) ELSE cities[x]]
  /\ cache' = invalidateList(cache)
  /\ stage' = [stage EXCEPT !["cities"] = stageAfterUpdate(@)]
  /\ UNCHANGED <<users, offers, offerSeq, deleting, rlVars, clsVars, appVars>>

\* DefaultCityService.findByCityId
CityFindByCityId(cityId) ==
  /\ CountRead
  /\ LET cacheKey == getByIdKey(cityId)
         cachedCity == cacheGet(cache, cacheKey)
         city == cityById(cityId)
     IN IF cachedCity # null \/ city = null THEN UNCHANGED cache
        ELSE cache' = cacheSet(cache, cacheKey, toObject(city[1]), CACHE_TTL_CITIES)
  /\ UNCHANGED <<users, offers, offerSeq, cities, stage, deleting, rlVars, clsVars, appVars>>

\* the cache after findByCityName
findByCityNameCaches(c, cityName) ==
  LET cachedCity == cacheGet(c, getByNameKey(cityName))
      city == cityByName(cityName)
  IN IF cachedCity # null \/ city = null THEN c
     ELSE cacheSet(c, getByNameKey(cityName), toObject(city[1]), CACHE_TTL_CITIES)

\* what findByCityName returns
findByCityNameReturns(cityName) ==
  LET cachedCity == cacheGet(cache, getByNameKey(cityName))
  IN IF cachedCity # null THEN cachedCity ELSE cityByName(cityName)

\* DefaultCityService.findByCityName
CityFindByCityName(cityName) ==
  /\ CountRead
  /\ cache' = findByCityNameCaches(cache, cityName)
  /\ UNCHANGED <<users, offers, offerSeq, cities, stage, deleting, rlVars, clsVars, appVars>>

\* DefaultCityService.findByCityNameOrCreate
CityFindByCityNameOrCreate(cityName, dto) ==
  /\ CountWrite
  /\ IF findByCityNameReturns(cityName) # null
     THEN /\ cache' = findByCityNameCaches(cache, cityName)
          /\ UNCHANGED <<cities, stage>>
     ELSE /\ cityByName(dto.name) = null
          /\ \E id \in CityIds \ DOMAIN cities :
               cities' = [x \in DOMAIN cities \cup {id} |->
                            IF x = id THEN CityDoc(id, dto.name) ELSE cities[x]]
          /\ cache' = invalidateList(findByCityNameCaches(cache, cityName))
          /\ stage' = [stage EXCEPT !["cities"] = stageAfterUpdate(@)]
  /\ UNCHANGED <<users, offers, offerSeq, deleting, rlVars, clsVars, appVars>>

\* DefaultCityService.find: an empty cached array is a hit as well
CityFind ==
  /\ CountRead
  /\ LET cachedCities == cacheGet(cache, getListKey)
     IN IF cachedCities # null THEN UNCHANGED cache
        ELSE cache' = cacheSet(cache, getListKey, cityAggregate, CACHE_TTL_CITIES)
  /\ stage' = [stage EXCEPT !["cities"] = stageAfterRead(@)]
  /\ UNCHANGED <<users, offers, offerSeq, cities, deleting, rlVars, clsVars, appVars>>

NextCities ==
  \/ RedisConnect(Self)
  \/ RedisDrop(Self)
  \/ \E dto \in CreateCityDtos : CityCreate(dto)
  \/ \E id \in CityIds : CityFindByCityId(id)
  \/ \E name \in CityNames : CityFindByCityName(name)
  \/ \E name \in CityNames : CityFindByCityNameOrCreate(name, [name |-> name])
  \/ CityFind

SpecCities == InitServer /\ [][NextCities]_vars

----------------------------------------------------------------------------
\* ---- RentOfferCacheService and DefaultRentOfferService ---------------------

RENT_OFFERS_LIST_KEY == "rent-offers:list"
RENT_OFFERS_CITY_KEY == "rent-offers:city"
RENT_OFFERS_PREMIUM_KEY == "rent-offers:premium"
RENT_OFFERS_NEW_KEY == "rent-offers:new"
RENT_OFFERS_DISCUSSED_KEY == "rent-offers:discussed"
RENT_OFFER_INDIVIDUAL_KEY == "rent-offer:individual"

\* DEFAULT_OFFER_COUNT of rent-offer.constants
DEFAULT_OFFER_COUNT == 60

\* the limits whose keys the invalidation helpers delete
InvalidatedLimits == <<DEFAULT_OFFER_COUNT, 10, 20, 50, 100>>

getListCacheKey(limit) == generateKey(RENT_OFFERS_LIST_KEY, <<ToString(limit)>>)
getIndividualCacheKey(rentOfferId) ==
  generateKey(RENT_OFFER_INDIVIDUAL_KEY, <<rentOfferId>>)
getCityCacheKey(cityId, limit) ==
  generateKey(RENT_OFFERS_CITY_KEY, <<cityId, ToString(limit)>>)
getPremiumCacheKey(cityId, limit) ==
  generateKey(RENT_OFFERS_PREMIUM_KEY, <<cityId, ToString(limit)>>)
getNewCacheKey(count) == generateKey(RENT_OFFERS_NEW_KEY, <<ToString(count)>>)
getDiscussedCacheKey(count) ==
  generateKey(RENT_OFFERS_DISCUSSED_KEY, <<ToString(count)>>)

\* the keys one pass of the invalidation loops deletes: the bare key and its
\* variation for each of the listed limits
limitVariations(bare, prefix, parts) ==
  <<bare>> \o [i \in 1..Len(InvalidatedLimits) |->
                 generateKey(prefix, parts \o <<ToString(InvalidatedLimits[i])>>)]

\* RentOfferCacheService.invalidateListCaches
invalidateListCaches(c) ==
  cacheDeleteEach(c,
    limitVariations(RENT_OFFERS_LIST_KEY, RENT_OFFERS_LIST_KEY, <<>>)
    \o limitVariations(RENT_OFFERS_NEW_KEY, RENT_OFFERS_NEW_KEY, <<>>)
    \o limitVariations(RENT_OFFERS_DISCUSSED_KEY, RENT_OFFERS_DISCUSSED_KEY, <<>>))

\* RentOfferCacheService.invalidateOfferCaches
invalidateOfferCaches(c, cityId) ==
  cacheDeleteEach(c,
    limitVariations(generateKey(RENT_OFFERS_CITY_KEY, <<cityId>>),
                    RENT_OFFERS_CITY_KEY, <<cityId>>)
    \o limitVariations(generateKey(RENT_OFFERS_PREMIUM_KEY, <<cityId>>),
                       RENT_OFFERS_PREMIUM_KEY, <<cityId>>))

\* RentOfferCacheService.invalidateIndividualOffer
invalidateIndividualOffer(c, rentOfferId) ==
  cacheDelete(c, getIndividualCacheKey(rentOfferId))

\* the inputs of the rent offer service
Limits == {DEFAULT_OFFER_COUNT, 1}
CreateRentOfferDtos ==
  [title : {"t1"}, cityId : CityIds, userId : {"u1"}, isPremium : BOOLEAN]
UpdateRentOfferDtos ==
  {[title |-> "t2"], [isPremium |-> TRUE], [cityId |-> "c2"], [cityId |-> "c3"]}

\* populate: a reference is replaced by the document it names
populateRef(coll, id) == IF id \in DOMAIN coll THEN toObject(coll[id]) ELSE null

\* populate(['userId', 'cityId'])
populate(offer) ==
  [offer EXCEPT !.userId = populateRef(users, @),
                !.cityId = populateRef(cities, @)]

\* populate(['cityId'])
populateCity(offer) == [offer EXCEPT !.cityId = populateRef(cities, @)]

\* sort({ createdAt: SortType.Down }) over the offers the filter keeps
newestFirst(S) ==
  LET oldestFirst == selectIn(OfferOrder, S)
  IN [i \in 1..Len(oldestFirst) |-> oldestFirst[Len(oldestFirst) + 1 - i]]

\* sort({ commentCount: SortType.Down })
mostDiscussed ==
  sortDown(selectIn(OfferOrder, DOMAIN offers),
           [id \in DOMAIN offers |-> offers[id].commentCount])

\* the documents of a sequence of ids
populatedDocs(ids) == [i \in 1..Len(ids) |-> populate(offers[ids[i]])]
cityPopulatedDocs(ids) == [i \in 1..Len(ids) |-> populateCity(offers[ids[i]])]

\* the queries of the list reads
queryFind(limit) == populatedDocs(take(newestFirst(DOMAIN offers), limit))
queryDiscussed(count) == populatedDocs(take(mostDiscussed, count))
queryByCity(cityId, limit) ==
  populatedDocs(take(newestFirst({ o \in DOMAIN offers :
                                     offers[o].cityId = cityId }), limit))
queryPremiumByCity(cityId, limit) ==
  cityPopulatedDocs(take(newestFirst({ o \in DOMAIN offers :
                                         /\ offers[o].cityId = cityId
                                         /\ offers[o].isPremium }), limit))

\* the cache after a list read: a cached array, an empty one as well, is a
\* hit; on a miss the query result is stored under the key
listReadCaches(c, cacheKey, docs) ==
  IF cacheGet(c, cacheKey) # null THEN c
  ELSE cacheSet(c, cacheKey, toJSONList(docs), CACHE_TTL_RENT_OFFERS)

\* what a list read returns: the cached array or the result of the query
listReadReturns(cacheKey, docs) ==
  LET cachedOffers == cacheGet(cache, cacheKey)
  IN IF cachedOffers # null THEN cachedOffers[1] ELSE docs

\* a list read is counted; the arrays it caches are the large values of the
\* store, so it takes two units of the read budget
CountListRead == nreads + 1 < MaxReads /\ nreads' = nreads + 2 /\ UNCHANGED nops

cityExistsAlways(cityId) == TRUE

\* cityModel.exists({ _id })
cityExists(cityId) == cityId \in DOMAIN cities

\* the fields of a dto written over a document
applyDto(doc, dto) ==
  [f \in DOMAIN doc |-> IF f \in DOMAIN dto THEN dto[f] ELSE doc[f]]

\* DefaultRentOfferService.create: BAD_REQUEST for an unknown city, else the
\* document is created and the caches of its city and the lists are invalidated
OfferCreate(dto) ==
  /\ CountWrite
  /\ offerSeq < Len(OfferOrder)
  /\ IF ~cityExists(dto.cityId)
     THEN UNCHANGED <<offers, offerSeq, cache>>
     ELSE LET id == OfferOrder[offerSeq + 1]
          IN /\ offers' = [x \in DOMAIN offers \cup {id} |->
                             IF x = id
                             THEN OfferDoc(id, dto.title, dto.cityId, dto.userId,
                                           dto.isPremium, 0)
                             ELSE offers[x]]
             /\ offerSeq' = offerSeq + 1
             /\ cache' = invalidateListCaches(
                           invalidateOfferCaches(cache, dto.cityId))
  /\ UNCHANGED <<users, cities, stage, deleting, rlVars, clsVars, appVars>>

\* DefaultRentOfferService.find
OfferFind(count) ==
  /\ CountListRead
  /\ cache' = listReadCaches(cache, getListCacheKey(count),
                             queryFind(count))
  /\ UNCHANGED <<users, offers, offerSeq, cities, stage, deleting, rlVars, clsVars, appVars>>

\* what DefaultRentOfferService.findById returns
offerFindByIdReturns(rentOfferId) ==
  LET cachedOffer == cacheGet(cache, getIndividualCacheKey(rentOfferId))
  IN IF cachedOffer # null THEN cachedOffer
     ELSE IF rentOfferId \in DOMAIN offers
          THEN Some(populate(offers[rentOfferId])) ELSE null

\* DefaultRentOfferService.findById
OfferFindById(rentOfferId) ==
  /\ CountRead
  /\ LET cacheKey == getIndividualCacheKey(rentOfferId)
         cachedOffer == cacheGet(cache, cacheKey)
     IN IF cachedOffer # null \/ rentOfferId \notin DOMAIN offers
        THEN UNCHANGED cache
        ELSE cache' = cacheSet(cache, cacheKey,
                               toObject(populate(offers[rentOfferId])),
                               CACHE_TTL_RENT_OFFERS)
  /\ stage' = [stage EXCEPT ![rentOfferId] =
                 IF offerFindByIdReturns(rentOfferId) = null THEN @
                 ELSE stageAfterRead(@)]
  /\ UNCHANGED <<users, offers, offerSeq, cities, deleting, rlVars, clsVars, appVars>>

\* DefaultRentOfferService.deleteById up to its last await: the document is
\* looked up and, when it is there, the caches of its city, the lists and its
\* own entry are invalidated; the deletion is still to come. Without a
\* document findByIdAndDelete finds nothing and the call is over. One
\* deleteById of an offer is followed at a time.
OfferDeleteById(rentOfferId) ==
  /\ CountWrite
  /\ rentOfferId \notin deleting
  /\ IF rentOfferId \in DOMAIN offers
     THEN /\ cache' = invalidateIndividualOffer(
                        invalidateListCaches(
                          invalidateOfferCaches(cache, offers[rentOfferId].cityId)),
                        rentOfferId)
          /\ deleting' = deleting \cup {rentOfferId}
     ELSE UNCHANGED <<cache, deleting>>
  /\ UNCHANGED <<users, offers, offerSeq, cities, stage, rlVars, clsVars, appVars>>

\* the end of DefaultRentOfferService.deleteById: findByIdAndDelete
OfferFindByIdAndDelete(rentOfferId) ==
  /\ rentOfferId \in deleting
  /\ deleting' = deleting \ {rentOfferId}
  /\ offers' = [x \in DOMAIN offers \ {rentOfferId} |-> offers[x]]
  /\ stage' = [stage EXCEPT ![rentOfferId] = 0]
  /\ UNCHANGED <<cache, users, offerSeq, cities, nops, nreads, rlVars, clsVars, appVars>>

\* DefaultRentOfferService.updateById: BAD_REQUEST for an unknown city; when a
\* document was updated the caches of its city after the update, the lists
\* and its own entry are invalidated
OfferUpdateById(rentOfferId, dto) ==
  /\ CountWrite
  /\ IF "cityId" \in DOMAIN dto /\ ~cityExists(dto.cityId)
     THEN UNCHANGED <<cache, offers, stage>>
     ELSE IF rentOfferId \in DOMAIN offers
          THEN LET result == applyDto(offers[rentOfferId], dto)
               IN /\ offers' = [offers EXCEPT ![rentOfferId] = result]
                  /\ cache' = invalidateIndividualOffer(
                                invalidateListCaches(
                                  invalidateOfferCaches(cache, result.cityId)),
                                rentOfferId)
                  /\ stage' = [stage EXCEPT ![rentOfferId] = stageAfterUpdate(@)]
          ELSE UNCHANGED <<cache, offers, stage>>
  /\ UNCHANGED <<users, offerSeq, cities, deleting, rlVars, clsVars, appVars>>

\* DefaultRentOfferService.findByCityId
OfferFindByCityId(cityId, count) ==
  /\ CountListRead
  /\ cache' = listReadCaches(cache, getCityCacheKey(cityId, count),
                             queryByCity(cityId, count))
  /\ UNCHANGED <<users, offers, offerSeq, cities, stage, deleting, rlVars, clsVars, appVars>>

\* DefaultRentOfferService.findPremiumByCityId
OfferFindPremiumByCityId(cityId, count) ==
  /\ CountListRead
  /\ cache' = listReadCaches(cache, getPremiumCacheKey(cityId, count),
                             queryPremiumByCity(cityId, count))
  /\ UNCHANGED <<users, offers, offerSeq, cities, stage, deleting, rlVars, clsVars, appVars>>

\* DefaultRentOfferService.incCommentCount
OfferIncCommentCount(rentOfferId) ==
  /\ CountWrite
  /\ IF rentOfferId \in DOMAIN offers
     THEN /\ offers' = [offers EXCEPT ![rentOfferId].commentCount = @ + 1]
          /\ cache' = invalidateIndividualOffer(invalidateListCaches(cache),
                                                rentOfferId)
          /\ stage' = [stage EXCEPT ![rentOfferId] = stageAfterOtherWrite(@)]
     ELSE UNCHANGED <<cache, offers, stage>>
  /\ UNCHANGED <<users, offerSeq, cities, deleting, rlVars, clsVars, appVars>>

\* DefaultRentOfferService.findNew
OfferFindNew(count) ==
  /\ CountListRead
  /\ cache' = listReadCaches(cache, getNewCacheKey(count),
                             queryFind(count))
  /\ UNCHANGED <<users, offers, offerSeq, cities, stage, deleting, rlVars, clsVars, appVars>>

\* DefaultRentOfferService.findDiscussed
OfferFindDiscussed(count) ==
  /\ CountListRead
  /\ cache' = listReadCaches(cache, getDiscussedCacheKey(count),
                             queryDiscussed(count))
  /\ UNCHANGED <<users, offers, offerSeq, cities, stage, deleting, rlVars, clsVars, appVars>>

NextOffers ==
  \/ RedisConnect(Self)
  \/ RedisDrop(Self)
  \/ \E dto \in CreateRentOfferDtos : OfferCreate(dto)
  \/ \E count \in Limits : OfferFind(count)
  \/ \E id \in OfferIds : OfferFindById(id)
  \/ \E id \in OfferIds : OfferDeleteById(id)
  \/ \E id \in OfferIds : OfferFindByIdAndDelete(id)
  \/ \E id \in OfferIds, dto \in UpdateRentOfferDtos : OfferUpdateById(id, dto)
  \/ \E cityId \in DOMAIN SeedCities, count \in Limits : OfferFindByCityId(cityId, count)
  \/ \E cityId \in DOMAIN SeedCities, count \in Limits :
       OfferFindPremiumByCityId(cityId, count)
  \/ \E id \in OfferIds : OfferIncCommentCount(id)
  \/ \E count \in Limits : OfferFindNew(count)
  \/ \E count \in Limits : OfferFindDiscussed(count)

SpecOffers == InitServer /\ [][NextOffers]_vars

\* the by-id reads and writes of users and of rent offers
NextById ==
  \/ RedisConnect(Self)
  \/ RedisDrop(Self)
  \/ \E id \in UserIds : UserFindById(id)
  \/ \E email \in Emails : UserFindByEmail(email)
  \/ \E id \in UserIds, dto \in UpdateUserDtos : UserUpdateById(id, dto)
  \/ \E id \in UserIds, path \in AvatarPaths : UserUpdateAvatar(id, path)
  \/ \E id \in OfferIds : OfferFindById(id)
  \/ \E id \in OfferIds, dto \in UpdateRentOfferDtos : OfferUpdateById(id, dto)
  \/ \E id \in OfferIds : OfferDeleteById(id)
  \/ \E id \in OfferIds : OfferFindByIdAndDelete(id)
  \/ \E id \in OfferIds : OfferIncCommentCount(id)

SpecById == InitServer /\ [][NextById]_vars

----------------------------------------------------------------------------
(* SpecCache: the cache-aside reads of the three services while time        *)
(* passes, the connection comes and goes and the store holds foreign text. *)

\* one second passes in the store: an entry set with setex whose time has run
\* out is removed, an entry set without a TTL stays
CacheTick ==
  /\ \E key \in DOMAIN cache : cache[key].ttl > 0
  /\ cache' = [key \in { k \in DOMAIN cache : cache[k].ttl # 1 } |->
                [cache[key] EXCEPT !.ttl = IF @ > 0 THEN @ - 1 ELSE @]]
  /\ UNCHANGED <<users, offers, offerSeq, cities, nops, nreads, stage,
                 deleting, rlVars, clsVars, appVars>>

\* the store holds, under a key of the services, a text that JSON.parse
\* rejects (written by another client of the database, or cut short)
StoreUndecodable(key) ==
  /\ nops < MaxOps /\ nops' = nops + 1
  /\ cache' = [x \in DOMAIN cache \cup {key} |->
                IF x = key THEN [valid |-> FALSE, json |-> "{", ttl |-> -1]
                ELSE cache[x]]
  /\ UNCHANGED <<users, offers, offerSeq, cities, nreads, stage, deleting, rlVars, clsVars, appVars>>

NextCache ==
  \/ RedisConnect(Self)
  \/ RedisDrop(Self)
  \/ CacheTick
  \/ \E key \in { getProfileKey("u1"), getIndividualCacheKey("o1"), getListKey } :
       StoreUndecodable(key)
  \/ \E id \in UserIds : UserExists(id)
  \/ \E id \in UserIds : UserFindById(id)
  \/ \E email \in Emails : UserFindByEmail(email)
  \/ \E id \in UserIds, dto \in UpdateUserDtos : UserUpdateById(id, dto)
  \/ \E id \in CityIds : CityFindByCityId(id)
  \/ \E name \in CityNames : CityFindByCityName(name)
  \/ CityFind
  \/ \E id \in OfferIds : OfferFindById(id)
  \/ \E count \in Limits : OfferFind(count)
  \/ \E cityId \in DOMAIN SeedCities, count \in Limits :
       OfferFindByCityId(cityId, count)

SpecCache == InitServer /\ [][NextCache]_vars





----------------------------------------------------------------------------
(* Claims about the rate limiter.                                          *)

\* the decisions of the open window, in order
Outcomes(x) == [i \in 1..Len(decisions[x]) |-> decisions[x][i].d]

\* exactly the first b requests of the window were admitted
FirstAdmitted(x, b) ==
  \A i \in 1..Len(decisions[x]) : (decisions[x][i].d = "allow") <=> (i <= b)

\* the counter Execute(p, req) counts in
CounterOf(p, req) ==
  << StoreAfterInit(p), getRateLimiter(req.path, req.method), req.ip >>

\* Execute(p, req) reached the store (the store command was not refused)
Counted(p, req) == StoreAfterInit(p) = "redis" => connected[p]

C11_StoreErrorFallsBack ==
  [][ \A req \in Requests :
        (Execute("p1", req) /\ storeBacked'["p1"] /\ ~connected["p1"]) =>
          LET own == << "p1", getRateLimiter(req.path, req.method), req.ip >>
          IN /\ hits'[own] = hits[own] + 1
             /\ Len(decisions'[own]) = Len(decisions[own]) + 1
             /\ decisions'[own][Len(decisions'[own])].d \in {"allow", "reject"}
    ]_vars

\* C12 as stated: the limiter is Ready whenever the store client reports
\* connected, also when it was built while the store was unavailable: a
\* request handled while the client reports connected is counted in the
\* shared store
C12_ReadyOnReconnect ==
  [][ \A req \in Requests :
        (Execute("p1", req) /\ connected["p1"]) =>
          LET shared == << "redis", getRateLimiter(req.path, req.method), req.ip >>
          IN hits'[shared] = hits[shared] + 1
    ]_vars

\* C13: execute can take a request before initialize has run;
\* after it the middleware is initialized, so that getRateLimiter has returned
\* a limiter, and the request was handed to the limiter of exactly one tier:
\* only counters of the tier the request classifies to change, and exactly
\* one counter is incremented unless the store refused the command
C13_SafeBeforeInitialize ==
  [][ \A req \in Requests :
        /\ (~isInitialized["p1"] /\ nreq < MaxRequests) =>
             ENABLED Execute("p1", req)
        /\ Execute("p1", req) =>
             /\ isInitialized'["p1"]
             /\ \A x \in CK : hits'[x] # hits[x] =>
                  x[2] = getRateLimiter(req.path, req.method)
             /\ Counted("p1", req) =>
                  Cardinality({ x \in CK : hits'[x] = hits[x] + 1 }) = 1
    ]_vars

\* the only request so far was counted by limiters that are now built
C13_Witness ==
  /\ nreq = 1 /\ isInitialized["p1"]
  /\ Cardinality({ x \in CK : hits[x] = 1 /\ Len(decisions[x]) = 1 }) = 1
  /\ \A x \in CK : hits[x] <= 1

\* C14 as stated: in the pipeline as wired, a request of the user API tier
\* that carries a valid token is counted under the id of the authenticated
\* principal and not under the client address
C14_UserApiByPrincipal ==
  [][ \A req \in Requests :
        ( /\ Execute("p1", req) /\ Counted("p1", req)
          /\ getRateLimiter(req.path, req.method) = "userApi"
          /\ req.token # "none" ) =>
          LET s == StoreAfterInit("p1")
          IN /\ hits'[<<s, "userApi", req.token>>] =
                  hits[<<s, "userApi", req.token>>] + 1
             /\ hits'[<<s, "userApi", req.ip>>] = hits[<<s, "userApi", req.ip>>]
    ]_vars

\* C15: a request handled by the limiter of tier T, and the response that
\* finishes it, change only counters of tier T: the counter of the request's
\* key under T's namespace takes the request, and the counters of the other
\* three tiers keep their count and their window
C15_TierIsolation ==
  [][ /\ \A req \in Requests :
           Execute("p1", req) =>
             LET t == getRateLimiter(req.path, req.method)
                 own == << StoreAfterInit("p1"), t, req.ip >>
             IN /\ Counted("p1", req) => hits'[own] = hits[own] + 1
                /\ \A x \in CK : x[2] # t =>
                     /\ hits'[x] = hits[x]
                     /\ ttl'[x] = ttl[x]
                     /\ decisions'[x] = decisions[x]
      /\ \A t \in Tiers, k \in Keys, ok \in BOOLEAN :
           Finish("p1", t, k, ok) =>
             \A x \in CK : x[2] # t => hits'[x] = hits[x]
    ]_vars

\* one client address has used up Upload in the shared store and has one
\* request counted in Public there
C15_Witness ==
  /\ hits[<<"redis", "upload", "ip1">>] = MaxUpload + 1
  /\ hits[<<"redis", "public", "ip1">>] = 1
  /\ hits[<<"redis", "auth", "ip1">>] = 0
  /\ hits[<<"redis", "userApi", "ip1">>] = 0

----------------------------------------------------------------------------
(* SpecClassify: one request is drawn and classified.                      *)

InitClassify ==
  /\ cPath \in Paths
  /\ cMethod \in Methods
  /\ cLimiter = "none"
  /\ kArgs = <<"", <<>>>> /\ kKey = <<>>
  /\ RLIdle
  /\ CacheIdle
  /\ AppConstructed

Classify ==
  /\ cLimiter = "none"
  /\ cLimiter' = getRateLimiter(cPath, cMethod)
  /\ UNCHANGED <<cPath, cMethod, kArgs, kKey>>
  /\ UNCHANGED rlVars
  /\ UNCHANGED cacheVars
  /\ UNCHANGED appVars

NextClassify == Classify

SpecClassify == InitClassify /\ [][NextClassify]_vars

\* C7: classification takes the first match in the order Auth, Upload,
\* UserApi, Public: a request matching an Auth pattern goes to the auth
\* limiter also when it matches the UserApi rule (POST /users/signin), and one
\* matching an Upload pattern but no Auth pattern goes to the upload limiter
\* also when it matches the UserApi rule (POST /users/:id/avatar)
C7_TierPriority ==
  cLimiter # "none" =>
    /\ (isAuthEndpoint(cPath) => cLimiter = "auth")
    /\ (~isAuthEndpoint(cPath) /\ isUploadEndpoint(cPath) => cLimiter = "upload")
    /\ (isUserApiEndpoint(cPath, cMethod) /\ cLimiter # "userApi" =>
          isAuthEndpoint(cPath) \/ isUploadEndpoint(cPath))
    /\ (cLimiter = "public" =>
          ~isAuthEndpoint(cPath) /\ ~isUploadEndpoint(cPath)
          /\ ~isUserApiEndpoint(cPath, cMethod))

\* POST /users/signin, which matches the Auth and the UserApi rule, was classified
C7_Witness ==
  /\ cPath = Seg.users \o Seg.signin /\ cMethod = "POST"
  /\ isUserApiEndpoint(cPath, cMethod)
  /\ cLimiter = "auth"

\* the tier the classification rule of the specification gives
ClassifyBySpec(path, method) ==
  IF includes(path, Seg.signin) \/ includes(path, Seg.signup) \/ includes(path, Seg.logout)
  THEN "auth"
  ELSE IF \/ includes(path, Seg.upload) \/ includes(path, Seg.avatar)
          \/ includes(path, Seg.preview) \/ includes(path, Seg.images)
  THEN "upload"
  ELSE IF \/ includes(path, Seg.favorites) \/ includes(path, Seg.comments)
          \/ ((includes(path, Seg.rentOffers) \/ includes(path, Seg.users))
              /\ method # "GET")
  THEN "userApi"
  ELSE "public"

----------------------------------------------------------------------------
\* ---- claims about the cache-aside services ---------------------------------

\* C2: invalidation correctness by id. Once a user or a rent offer has been
\* read through the cache and then successfully updated by id while the store
\* was reachable, the next findById returns the document as the database
\* holds it, never the entry that was cached before the update.
C2_InvalidationById ==
  [][ /\ \A id \in UserIds :
           (UserFindById(id) /\ stage[id] = 2) =>
             /\ findByIdReturns(id) # null
             /\ toObject(findByIdReturns(id)[1]) = toObject(users[id])
      /\ \A id \in OfferIds :
           (OfferFindById(id) /\ stage[id] = 2) =>
             /\ offerFindByIdReturns(id) # null
             /\ toObject(offerFindByIdReturns(id)[1])
                  = toObject(populate(offers[id])) ]_vars

\* a user and a rent offer were each read, renamed and read again, and the
\* entries cached by the second reads carry the new name and title
C2_Witness ==
  /\ \E id \in UserIds :
       /\ stage[id] = 3
       /\ getProfileKey(id) \in DOMAIN cache
       /\ cache[getProfileKey(id)].json.name = "n2"
  /\ \E id \in OfferIds :
       /\ stage[id] = 3
       /\ getIndividualCacheKey(id) \in DOMAIN cache
       /\ cache[getIndividualCacheKey(id)].json.title = "t2"

\* C3: a successful updateById or updateAvatar of a user, run with the store
\* reachable, leaves no by-email cache entry of that user.
C3_ByEmailInvalidated ==
  [][ \A id \in UserIds :
        ( /\ id \in DOMAIN users
          /\ isConnected
          /\ \/ \E dto \in UpdateUserDtos : UserUpdateById(id, dto)
             \/ \E path \in AvatarPaths : UserUpdateAvatar(id, path) )
        => getProfileByEmailKey(users[id].email) \notin DOMAIN cache' ]_vars

\* the keys under which a list that could include an offer of one of the
\* given cities is cached
ListKeysFor(cityIds) ==
  { getListCacheKey(l) : l \in Limits }
  \cup { getNewCacheKey(l) : l \in Limits }
  \cup { getDiscussedCacheKey(l) : l \in Limits }
  \cup { getCityCacheKey(c, l) : c \in cityIds, l \in Limits }
  \cup { getPremiumCacheKey(c, l) : c \in cityIds, l \in Limits }

\* C4: after a rent offer was created, updated or deleted with the store
\* reachable, none of the list keys that could include it, for whatever limit
\* or count, still holds the array cached before the mutation.
C4_ListCachesInvalidated ==
  [][ /\ \A dto \in CreateRentOfferDtos :
           (OfferCreate(dto) /\ isConnected /\ cityExists(dto.cityId)) =>
             ListKeysFor({dto.cityId}) \cap DOMAIN cache' = {}
      /\ \A id \in OfferIds, dto \in UpdateRentOfferDtos :
           ( /\ OfferUpdateById(id, dto)
             /\ isConnected
             /\ id \in DOMAIN offers
             /\ ("cityId" \in DOMAIN dto => cityExists(dto.cityId)) ) =>
             ListKeysFor({offers[id].cityId, offers'[id].cityId})
               \cap DOMAIN cache' = {}
      /\ \A id \in OfferIds :
           (OfferDeleteById(id) /\ isConnected /\ id \in DOMAIN offers) =>
             ListKeysFor({offers[id].cityId}) \cap DOMAIN cache' = {} ]_vars

----------------------------------------------------------------------------
(* Claims about the cache under failures, time and repeated reads.         *)

C17_RoundTripAndExpiry ==
  [][ /\ \A id \in UserIds :
           ( /\ UserExists(id) /\ isConnected
             /\ cacheGet(cache, getExistsKey(id)) = null ) =>
             /\ cacheGet(cache', getExistsKey(id)) = Some(id \in DOMAIN users)
             /\ cache'[getExistsKey(id)].ttl >= 1
             /\ cache'[getExistsKey(id)].ttl <= CACHE_TTL_USERS
      /\ \A id \in DOMAIN users :
           ( /\ UserFindById(id) /\ isConnected
             /\ cacheGet(cache, getProfileKey(id)) = null ) =>
             /\ cacheGet(cache', getProfileKey(id)) = Some(toObject(users[id]))
             /\ cache'[getProfileKey(id)].ttl = CACHE_TTL_USERS
      /\ \A key \in DOMAIN cache' :
           cache'[key].valid => cache'[key].ttl \in 1..CACHE_TTL_USERS
      /\ CacheTick =>
           \A key \in DOMAIN cache :
             cache[key].ttl = 1 => key \notin DOMAIN cache'
    ]_vars

\* C18: a stored text that does not parse is a miss, as a missing key is:
\* findById of users and offers and the city list return what the database
\* holds, and with the store reachable the read stores the value it read
\* over the text
C18_DefensiveDeserialization ==
  [][ /\ \A key \in DOMAIN cache :
           ~cache[key].valid => cacheGet(cache, key) = null
      /\ ( /\ getProfileKey("u1") \in DOMAIN cache
           /\ ~cache[getProfileKey("u1")].valid ) =>
           /\ findByIdReturns("u1") = userById("u1")
           /\ (UserFindById("u1") /\ isConnected) =>
                cacheGet(cache', getProfileKey("u1")) = Some(toObject(users["u1"]))
      /\ ( /\ getIndividualCacheKey("o1") \in DOMAIN cache
           /\ ~cache[getIndividualCacheKey("o1")].valid ) =>
           offerFindByIdReturns("o1") =
             IF "o1" \in DOMAIN offers THEN Some(populate(offers["o1"])) ELSE null
      /\ (getListKey \in DOMAIN cache /\ ~cache[getListKey].valid) =>
           /\ cityFindReturns = cityAggregate
           /\ (CityFind /\ isConnected) =>
                cacheGet(cache', getListKey) = Some(cityAggregate)
    ]_vars

\* the store is reachable and holds a text that does not parse under the key
\* of offer o1, while findById has stored the profile of u1 again and the
\* city list has been read
C18_Witness ==
  /\ isConnected
  /\ getIndividualCacheKey("o1") \in DOMAIN cache
  /\ ~cache[getIndividualCacheKey("o1")].valid
  /\ getProfileKey("u1") \in DOMAIN cache
  /\ cache[getProfileKey("u1")].valid
  /\ getListKey \in DOMAIN cache
  /\ cache[getListKey].valid
  /\ nops = 2

\* C19: with the store reachable, a cache-aside read that returns a result
\* leaves that result in the cache under the key of the read, an empty list
\* and a negative existence included, and no read removes an entry that
\* parses: until a write, a tick or an outage the next identical read finds
\* the entry and is answered from it without a query
C19_RepeatedReadsFromCache ==
  [][ isConnected =>
        /\ \A id \in UserIds : UserExists(id) => existsIsCached(cache', id)
        /\ \A id \in DOMAIN users :
             UserFindById(id) => cacheGet(cache', getProfileKey(id)) # null
        /\ \A email \in Emails :
             (UserFindByEmail(email) /\ userByEmail(email) # null) =>
               cacheGet(cache', getProfileByEmailKey(email)) # null
        /\ \A id \in DOMAIN cities :
             CityFindByCityId(id) => cacheGet(cache', getByIdKey(id)) # null
        /\ \A name \in CityNames :
             (CityFindByCityName(name) /\ cityByName(name) # null) =>
               cacheGet(cache', getByNameKey(name)) # null
        /\ CityFind => cacheGet(cache', getListKey) # null
        /\ \A id \in DOMAIN offers :
             OfferFindById(id) =>
               cacheGet(cache', getIndividualCacheKey(id)) # null
        /\ \A count \in Limits :
             /\ OfferFind(count) =>
                  cacheGet(cache', getListCacheKey(count)) # null
             /\ \A cityId \in DOMAIN SeedCities :
                  OfferFindByCityId(cityId, count) =>
                    cacheGet(cache', getCityCacheKey(cityId, count)) # null
        /\ nreads' # nreads =>
             \A key \in DOMAIN cache :
               cache[key].valid =>
                 key \in DOMAIN cache' /\ cache'[key].valid
    ]_vars

\* the empty list of the offers of city c2 and the negative existence of user
\* u2 are cached, and a further read has left the cache as it was
C19_Witness ==
  /\ isConnected
  /\ DOMAIN cache = { getCityCacheKey("c2", 1), getExistsKey("u2") }
  /\ cache[getCityCacheKey("c2", 1)].json = <<>>
  /\ cache[getExistsKey("u2")].json = FALSE
  /\ nreads = 4

\* C20 as stated: in updateById and deleteById the write to the system of
\* record comes first: when a step of deleteById invalidates the caches of an
\* offer the document is deleted, and when updateById of a user or an offer
\* invalidates, the document carries the update
C20_WriteThenInvalidate ==
  [][ /\ \A id \in OfferIds :
           (OfferDeleteById(id) /\ id \in DOMAIN offers) =>
             id \notin DOMAIN offers'
      /\ \A id \in DOMAIN offers, dto \in UpdateRentOfferDtos :
           (OfferUpdateById(id, dto) /\ cache' # cache) =>
             offers'[id] = applyDto(offers[id], dto)
      /\ \A id \in DOMAIN users, dto \in UpdateUserDtos :
           (UserUpdateById(id, dto) /\ cache' # cache) =>
             users'[id].name = dto.name
    ]_vars

----------------------------------------------------------------------------
(* Claims about writes of absent entities, referential validation and what *)
(* a write leaves in the cache.                                             *)

\* the keys DefaultUserService.updateAvatar hands to the cache service for
\* deletion: invalidateAvatar and invalidateProfile follow findByIdAndUpdate
\* without a look at what it found
updateAvatarInvalidates(userId) == {getAvatarKey(userId), getProfileKey(userId)}

\* DefaultRentOfferService.updateById throws HttpError(BAD_REQUEST) before the
\* offer is looked up
updateByIdThrows(dto) == "cityId" \in DOMAIN dto /\ ~cityExists(dto.cityId)

\* C21: a mutating call (updateById, deleteById, updateAvatar,
\* incCommentCount) on an id that is not in the system of record asks for no
\* cache key to be deleted, leaves the cache as it is and ends without a
\* thrown error.
C21_AbsentEntityUntouched ==
  [][ /\ \A id \in UserIds \ DOMAIN users :
           /\ \A dto \in UpdateUserDtos : UserUpdateById(id, dto) => cache' = cache
           /\ \A path \in AvatarPaths :
                UserUpdateAvatar(id, path) =>
                  updateAvatarInvalidates(id) = {} /\ cache' = cache
      /\ \A id \in OfferIds \ DOMAIN offers :
           /\ \A dto \in UpdateRentOfferDtos :
                OfferUpdateById(id, dto) => ~updateByIdThrows(dto) /\ cache' = cache
           /\ OfferDeleteById(id) => cache' = cache /\ deleting' = deleting
           /\ OfferIncCommentCount(id) => cache' = cache
    ]_vars

\* DefaultRentOfferService.create throws HttpError(BAD_REQUEST) when
\* cityModel.exists finds no city with the id of the dto
createThrows(dto) == ~cityExists(dto.cityId)

\* C22: create of a rent offer whose cityId names no city fails with
\* BAD_REQUEST, writes no document and leaves the cache as it is; with an
\* existing city the call does not fail, the document is written and the list
\* keys of the default limit, global and of that city, are gone afterwards.
C22_ReferentialValidation ==
  [][ \A dto \in CreateRentOfferDtos :
        OfferCreate(dto) =>
          IF dto.cityId \notin DOMAIN cities
          THEN /\ createThrows(dto)
               /\ offers' = offers
               /\ offerSeq' = offerSeq
               /\ cache' = cache
          ELSE /\ ~createThrows(dto)
               /\ \E id \in DOMAIN offers' \ DOMAIN offers :
                    /\ offers'[id].cityId = dto.cityId
                    /\ offers'[id].isPremium = dto.isPremium
                    /\ offers'[id].commentCount = 0
               /\ DOMAIN cache' \subseteq DOMAIN cache
               /\ isConnected =>
                    { getListCacheKey(DEFAULT_OFFER_COUNT),
                      getNewCacheKey(DEFAULT_OFFER_COUNT),
                      getDiscussedCacheKey(DEFAULT_OFFER_COUNT),
                      getCityCacheKey(dto.cityId, DEFAULT_OFFER_COUNT),
                      getPremiumCacheKey(dto.cityId, DEFAULT_OFFER_COUNT) }
                      \cap DOMAIN cache' = {}
    ]_vars

\* an offer was created in Amsterdam after the lists had been cached: the
\* global list is gone from the cache, the list of Paris is still there, and
\* no city c3 exists that a create could have named
C22_Witness ==
  /\ "o2" \in DOMAIN offers
  /\ offers["o2"].cityId = "c2"
  /\ "c3" \notin DOMAIN cities
  /\ isConnected
  /\ getListCacheKey(DEFAULT_OFFER_COUNT) \notin DOMAIN cache
  /\ getCityCacheKey("c1", DEFAULT_OFFER_COUNT) \in DOMAIN cache

\* C23: after a successful incCommentCount of an offer, run with the store
\* reachable, the by-id entry of the offer and every list that could hold it
\* (global, new, discussed, and the city-scoped and premium lists of its city,
\* here under the default limit) are gone from the cache.
C23_CounterInvalidates ==
  [][ \A id \in DOMAIN offers :
        (OfferIncCommentCount(id) /\ isConnected) =>
          /\ offers'[id].commentCount = offers[id].commentCount + 1
          /\ { getIndividualCacheKey(id),
               getListCacheKey(DEFAULT_OFFER_COUNT),
               getNewCacheKey(DEFAULT_OFFER_COUNT),
               getDiscussedCacheKey(DEFAULT_OFFER_COUNT),
               getCityCacheKey(offers[id].cityId, DEFAULT_OFFER_COUNT),
               getPremiumCacheKey(offers[id].cityId, DEFAULT_OFFER_COUNT) }
               \cap DOMAIN cache' = {}
    ]_vars

\* SpecWrites: every mutating call of the three domain services next to the
\* cache-aside reads that fill the keys those calls touch
NextWrites ==
  \/ RedisConnect(Self)
  \/ RedisDrop(Self)
  \/ \E dto \in CreateUserDtos : UserCreate(dto)
  \/ \E id \in UserIds, dto \in UpdateUserDtos : UserUpdateById(id, dto)
  \/ \E id \in UserIds, path \in AvatarPaths : UserUpdateAvatar(id, path)
  \/ \E dto \in CreateCityDtos : CityCreate(dto)
  \/ \E dto \in CreateRentOfferDtos : OfferCreate(dto)
  \/ \E id \in OfferIds, dto \in UpdateRentOfferDtos : OfferUpdateById(id, dto)
  \/ \E id \in OfferIds : OfferDeleteById(id)
  \/ \E id \in OfferIds : OfferFindByIdAndDelete(id)
  \/ \E id \in OfferIds : OfferIncCommentCount(id)
  \/ \E id \in UserIds : UserFindById(id)
  \/ \E email \in Emails : UserFindByEmail(email)
  \/ \E id \in UserIds : UserGetAvatarInfo(id)
  \/ CityFind
  \/ \E id \in OfferIds : OfferFindById(id)
  \/ \E count \in Limits : OfferFind(count)

SpecWrites == InitServer /\ [][NextWrites]_vars

\* C24: no mutating call of a domain service (create, updateById, deleteById,
\* updateAvatar, incCommentCount) puts a value into the cache: after such a
\* call every key of the cache was there before, with the value it had.
C24_InvalidateNeverUpdate ==
  [][ ( \/ \E dto \in CreateUserDtos : UserCreate(dto)
        \/ \E id \in UserIds, dto \in UpdateUserDtos : UserUpdateById(id, dto)
        \/ \E id \in UserIds, path \in AvatarPaths : UserUpdateAvatar(id, path)
        \/ \E dto \in CreateCityDtos : CityCreate(dto)
        \/ \E dto \in CreateRentOfferDtos : OfferCreate(dto)
        \/ \E id \in OfferIds, dto \in UpdateRentOfferDtos : OfferUpdateById(id, dto)
        \/ \E id \in OfferIds : OfferDeleteById(id)
        \/ \E id \in OfferIds : OfferFindByIdAndDelete(id)
        \/ \E id \in OfferIds : OfferIncCommentCount(id) ) =>
        /\ DOMAIN cache' \subseteq DOMAIN cache
        /\ \A key \in DOMAIN cache' : cache'[key] = cache[key]
    ]_vars

\* a user whose profile and avatar were cached got a new avatar, and an offer
\* whose entry was cached was renamed: the three entries are gone and nothing
\* took their place
C24_Witness ==
  /\ isConnected
  /\ nops = 2
  /\ users["u1"].avatarPath # DEFAULT_AVATAR_FILE_NAME
  /\ "o1" \in DOMAIN offers
  /\ offers["o1"].title = "t2"
  /\ getAvatarKey("u1") \notin DOMAIN cache
  /\ getProfileKey("u1") \notin DOMAIN cache
  /\ getIndividualCacheKey("o1") \notin DOMAIN cache
  /\ nreads >= 3

\* what the system of record answers, in the state at hand, to the query a
\* cache key stands for, as the plain data JSON.stringify writes
SnapshotOf(key) ==
  IF \E id \in DOMAIN users : key = getProfileKey(id)
  THEN toObject(users[CHOOSE id \in DOMAIN users : key = getProfileKey(id)])
  ELSE IF \E id \in DOMAIN users : key = getAvatarKey(id)
  THEN [avatarPath |->
          users[CHOOSE id \in DOMAIN users : key = getAvatarKey(id)].avatarPath]
  ELSE IF \E e \in Emails : key = getProfileByEmailKey(e) /\ userByEmail(e) # null
  THEN toObject(userByEmail(CHOOSE e \in Emails :
                              key = getProfileByEmailKey(e))[1])
  ELSE IF \E id \in DOMAIN offers : key = getIndividualCacheKey(id)
  THEN toObject(populate(offers[CHOOSE id \in DOMAIN offers :
                                  key = getIndividualCacheKey(id)]))
  ELSE IF \E l \in Limits : key = getListCacheKey(l)
  THEN toJSONList(queryFind(CHOOSE l \in Limits : key = getListCacheKey(l)))
  ELSE IF key = getListKey THEN cityAggregate
  ELSE "no query"

\* C25: under any interleaving of reads, creates, updates and deletes, a
\* cache entry that appears or changes is the well-formed serialization of
\* what the system of record answers at that moment to the query of its key,
\* and an entry that stays keeps its value: every present entry is a snapshot
\* of a past or the current state, never a value the system of record did not
\* return for that key.
C25_EntryIsSnapshot ==
  [][ \A key \in DOMAIN cache' :
        IF key \in DOMAIN cache /\ cache'[key].json = cache[key].json
        THEN cache'[key].valid = cache[key].valid
        ELSE /\ cache'[key].valid
             /\ cache'[key].json = SnapshotOf(key)
    ]_vars

\* the profile of u1 was cached, u1 was renamed while the store was out of
\* reach, and the entry still shows the old name: stale, and a snapshot
C25_Witness ==
  /\ getProfileKey("u1") \in DOMAIN cache
  /\ cache[getProfileKey("u1")].valid
  /\ cache[getProfileKey("u1")].json.name = "n1"
  /\ users["u1"].name = "n2"
  /\ getListCacheKey(DEFAULT_OFFER_COUNT) \in DOMAIN cache

----------------------------------------------------------------------------
(* SpecKeys: generateKey is called once, on the real and on the mock cache *)
(* service, with a prefix of the domain helpers and up to MaxParts parts.  *)

\* MockCacheService.generateKey: [prefix, ...parts].join(':')
mockGenerateKey(prefix, parts) == join(<<prefix>> \o parts)

\* the key prefixes of UserCacheService, CityCacheService and
\* RentOfferCacheService
KeyPrefixes ==
  { USER_PROFILE_KEY, USER_AVATAR_KEY, USER_EXISTS_KEY, CITY_INDIVIDUAL_KEY,
    RENT_OFFERS_LIST_KEY, RENT_OFFERS_CITY_KEY, RENT_OFFERS_PREMIUM_KEY,
    RENT_OFFERS_NEW_KEY, RENT_OFFERS_DISCUSSED_KEY, RENT_OFFER_INDIVIDUAL_KEY }

\* parts without a colon: ids, a limit, the words the helpers insert, and
\* the empty string
KeyParts == {"", "email", "name", "u1", "60"}
MaxParts == 2
KeyArgs ==
  { <<prefix, parts>> :
      prefix \in KeyPrefixes,
      parts \in UNION { [1..n -> KeyParts] : n \in 0..MaxParts } }

InitKeys ==
  /\ kArgs \in KeyArgs
  /\ kKey = <<>>
  /\ cPath = <<>> /\ cMethod = "GET" /\ cLimiter = "none"
  /\ RLIdle
  /\ CacheIdle
  /\ AppConstructed

GenerateKey ==
  /\ kKey = <<>>
  /\ kKey' = <<generateKey(kArgs[1], kArgs[2]),
              mockGenerateKey(kArgs[1], kArgs[2])>>
  /\ UNCHANGED <<kArgs, cPath, cMethod, cLimiter, rlVars, cacheVars, appVars>>

NextKeys == GenerateKey

SpecKeys == InitKeys /\ [][NextKeys]_vars

\* C26: generateKey gives equal inputs equal keys, no other tuple of a helper
\* prefix and colon-free parts is given the key of the tuple at hand, and the
\* real and the mock cache service build the same key, with zero parts as
\* well.
C26_GenerateKey ==
  kKey # <<>> =>
    /\ kKey[1] = generateKey(kArgs[1], kArgs[2])
    /\ \A other \in KeyArgs :
         generateKey(other[1], other[2]) = kKey[1] => other = kArgs
    /\ kKey[2] = kKey[1]

----------------------------------------------------------------------------
(* SpecConfig: the process is started on an environment in which one of    *)
(* the RATE_LIMIT_* variables is zero or negative; RestConfig loads and     *)
(* validates it and requests arrive.                                        *)

ConfigKeys ==
  { "RATE_LIMIT_WINDOW_MS", "RATE_LIMIT_MAX_PUBLIC", "RATE_LIMIT_MAX_AUTH",
    "RATE_LIMIT_MAX_UPLOAD", "RATE_LIMIT_MAX_USER_API" }

\* the values an environment variable is set to besides its default
EnvNumbers == {-1, 0}

\* the environments: the defaults, or one variable set to a value of EnvNumbers
Environments ==
  {DefaultConfig} \cup
  { [DefaultConfig EXCEPT ![key] = n] : key \in ConfigKeys, n \in EnvNumbers }

\* configRestSchema.validate for the RATE_LIMIT_* properties: each is declared
\* with format: Number and nothing else
validate(c) == \A key \in ConfigKeys : c[key] \in Int

\* the process before the constructor of RestConfig has run
InitConfig ==
  /\ config \in { [e EXCEPT !.loaded = FALSE] : e \in Environments }
  /\ connected \in { f \in [Procs -> BOOLEAN] : ~f["p2"] }
  /\ isInitialized = [p \in Procs |-> FALSE]
  /\ storeBacked = [p \in Procs |-> FALSE]
  /\ hits = [x \in CK |-> 0]
  /\ ttl = [x \in CK |-> 0]
  /\ handling = [x \in PK |-> 0]
  /\ decisions = [x \in CK |-> <<>>]
  /\ nreq = 0
  /\ cPath = <<>> /\ cMethod = "GET" /\ cLimiter = "none"
  /\ kArgs = <<"", <<>>>> /\ kKey = <<>>
  /\ CacheIdle
  /\ AppAfterInitCache

\* the constructor of RestConfig: load, validate (which throws on a value of
\* the wrong format, and the process does not start), getProperties
RestConfigLoad ==
  /\ ~config.loaded
  /\ validate(config)
  /\ config' = [config EXCEPT !.loaded = TRUE]
  /\ UNCHANGED <<connected, isInitialized, storeBacked, hits, ttl, handling,
                 decisions, nreq, clsVars, appVars, cacheVars>>

NextConfig ==
  \/ RestConfigLoad
  \/ config.loaded /\ \E req \in RequestsOfOne : Execute("p1", req)
  \/ config.loaded /\ \E t \in Tiers, k \in Keys, ok \in BOOLEAN : Finish("p1", t, k, ok)
  \/ config.loaded /\ Tick

SpecConfig == InitConfig /\ [][NextConfig]_vars

\* C27: a RATE_LIMIT_* value that is zero or negative is rejected when the
\* configuration is loaded: the configuration is never loaded with such a
\* value and no request is decided by a limiter built from it.
C27_NonPositiveRefused ==
  [][ /\ config'.loaded => \A key \in ConfigKeys : config'[key] > 0
      /\ \A req \in RequestsOfOne :
           Execute("p1", req) => \A key \in ConfigKeys : config[key] > 0
    ]_vars

----------------------------------------------------------------------------
(* SpecOwnership: requests pass the rate limiter of one process while the  *)
(* user service reads, writes and clears through the cache service on the   *)
(* same Redis database.                                                      *)

NextOwnership ==
  \/ Initialize(Self)
  \/ \E req \in RequestsOfOne : Execute(Self, req)
  \/ Tick
  \/ \E id \in UserIds : UserExists(id)
  \/ \E id \in UserIds : UserFindById(id)
  \/ \E id \in UserIds, dto \in UpdateUserDtos : UserUpdateById(id, dto)
  \/ UserClearAllUserCaches

SpecOwnership == InitServer /\ [][NextOwnership]_vars

\* C29: no call that goes through the cache service (the reads that get and
\* set, the writes that invalidate, clearAllUserCaches with its clear())
\* creates, changes or removes a counter of the rate limiter
C29_ExclusiveOwnership ==
  [][ ( \/ \E id \in UserIds : UserExists(id)
        \/ \E id \in UserIds : UserFindById(id)
        \/ \E id \in UserIds, dto \in UpdateUserDtos : UserUpdateById(id, dto)
        \/ UserClearAllUserCaches ) =>
        /\ hits' = hits
        /\ ttl' = ttl
        /\ decisions' = decisions
    ]_vars

----------------------------------------------------------------------------
(* SpecExpiry: cache-aside reads and the passing of time, and no write.    *)
(* Time does not stop: a tick that is due is taken.                         *)

NextExpiry ==
  \/ CacheTick
  \/ \E id \in UserIds : UserExists(id)
  \/ \E id \in UserIds : UserFindById(id)
  \/ \E id \in UserIds : UserGetAvatarInfo(id)
  \/ \E id \in OfferIds : OfferFindById(id)
  \/ CityFind

SpecExpiry == InitServer /\ [][NextExpiry]_vars /\ WF_vars(CacheTick)

\* the keys the reads of SpecExpiry fill
ExpiryKeys ==
  { getExistsKey(id) : id \in UserIds } \cup { getProfileKey(id) : id \in UserIds }
  \cup { getAvatarKey(id) : id \in UserIds }
  \cup { getIndividualCacheKey(id) : id \in OfferIds } \cup {getListKey}

\* C30: every entry a cache-aside read writes carries a strictly positive
\* expiry, so that, with no write ever invalidating it, an entry that is in
\* the cache is at some later time gone from it.
C30_StalenessBounded ==
  /\ [](\A key \in DOMAIN cache : cache[key].ttl > 0)
  /\ \A key \in ExpiryKeys : (key \in DOMAIN cache) ~> (key \notin DOMAIN cache)

----------------------------------------------------------------------------
(* SpecApp: the life of one server process: RestApplication.init step by   *)
(* step, requests to the health routes once the server listens, the        *)
(* connections coming and going, and the shutdown routine.                 *)

\* init with the server listening before anything else is set up
InitStepsServerFirst ==
  << "_initServer", "_initDb", "_initCache", "_initRateLimiter",
     "_initMiddleware", "_initControllers", "_initExceptionFilters" >>

\* the steps of RestApplication.init in the order it awaits them
InitSteps ==
  << "_initDb", "_initCache", "_initRateLimiter", "_initMiddleware",
     "_initControllers", "_initExceptionFilters", "_initServer" >>

\* most signals and errors the process is sent in one behaviour
MaxSignals == 2

Has(seq, x) == \E i \in 1..Len(seq) : seq[i] = x

CountOf(seq, x) == Cardinality({ i \in 1..Len(seq) : seq[i] = x })

\* init has completed the steps before the given one and is about to run it
initAt(step) ==
  /\ exitCode = "none"
  /\ initLog = SubSeq(InitSteps, 1, IndexOf(InitSteps, step) - 1)

\* the process after construction; the limiter and the caches are untouched
InitApp ==
  /\ AppConstructed
  /\ RLIdle
  /\ cPath = <<>> /\ cMethod = "GET" /\ cLimiter = "none"
  /\ kArgs = <<"", <<>>>> /\ kKey = <<>>
  /\ CacheIdle

\* _initDb: databaseClient.connect resolves, or it rejects and init rejects
\* with it: no later step runs, and the rejection, which nothing handles,
\* ends the process
AppInitDb(ok) ==
  /\ initAt("_initDb")
  /\ IF ok
     THEN /\ dbConnected' = TRUE
          /\ initLog' = Append(initLog, "_initDb")
          /\ UNCHANGED exitCode
     ELSE /\ initLog' = Append(initLog, "rejected")
          /\ exitCode' = "1"
          /\ UNCHANGED dbConnected
  /\ UNCHANGED <<httpServer, isShuttingDown, shutdownPc, shutdownLog, response,
                 pending, rlVars, clsVars, cacheVars>>

\* _initCache: redisClient.connect resolves, or it rejects and the error is
\* logged and swallowed
AppInitCache(ok) ==
  /\ initAt("_initCache")
  /\ connected' = [connected EXCEPT ![Self] = ok]
  /\ initLog' = Append(initLog, "_initCache")
  /\ UNCHANGED <<isInitialized, storeBacked, hits, ttl, handling, decisions,
                 nreq, config, dbConnected, httpServer, isShuttingDown,
                 shutdownPc, shutdownLog, exitCode, response, pending,
                 clsVars, cacheVars>>

\* _initRateLimiter: the middleware is constructed and initialized
AppInitRateLimiter ==
  /\ initAt("_initRateLimiter")
  /\ initializeRateLimiters(Self)
  /\ initLog' = Append(initLog, "_initRateLimiter")
  /\ UNCHANGED <<connected, hits, ttl, handling, decisions, nreq, config,
                 dbConnected, httpServer, isShuttingDown, shutdownPc,
                 shutdownLog, exitCode, response, pending, clsVars, cacheVars>>

\* _initMiddleware, _initControllers and _initExceptionFilters register
\* handlers on the express application
AppRegister(step) ==
  /\ step \in {"_initMiddleware", "_initControllers", "_initExceptionFilters"}
  /\ initAt(step)
  /\ initLog' = Append(initLog, step)
  /\ UNCHANGED <<dbConnected, httpServer, isShuttingDown, shutdownPc,
                 shutdownLog, exitCode, response, pending, rlVars, clsVars,
                 cacheVars>>

\* _initServer: the server listens and setupGracefulShutdown registers the
\* handlers of the signals and of the uncaught errors
AppInitServer ==
  /\ initAt("_initServer")
  /\ httpServer' = "listening"
  /\ initLog' = Append(initLog, "_initServer")
  /\ UNCHANGED <<dbConnected, isShuttingDown, shutdownPc, shutdownLog,
                 exitCode, response, pending, rlVars, clsVars, cacheVars>>

\* init has returned: the events of the connections are delivered from now on
initCompleted == initLog = InitSteps /\ exitCode = "none"

\* the ioredis client exists: connect has created it, disconnect not dropped it
redisInstance == Has(initLog, "_initCache") /\ shutdownPc # "exit(0)"

\* the connection to the database goes or comes back, and
\* isConnectedToDatabase() reports it
DatabaseEvent(c) ==
  /\ initCompleted
  /\ ~Has(shutdownLog, "databaseClient.disconnect")
  /\ c # dbConnected
  /\ dbConnected' = c
  /\ UNCHANGED <<initLog, httpServer, isShuttingDown, shutdownPc, shutdownLog,
                 exitCode, response, pending, rlVars, clsVars, cacheVars>>

\* the path of a route of the HealthController, mounted at /health
HealthRoutes == {"/", "/ready", "/live"}
HealthPath(route) ==
  <<"/", "h", "e", "a", "l", "t", "h">>
    \o (CASE route = "/" -> <<>>
          [] route = "/ready" -> <<"/", "r", "e", "a", "d", "y">>
          [] route = "/live" -> <<"/", "l", "i", "v", "e">>)

\* HealthController.checkDatabase and checkRedis
checkDatabase == dbConnected
checkRedis == isConnected

\* HealthController.health
health ==
  IF checkDatabase /\ checkRedis
  THEN [status |-> 200, body |-> "healthy"]
  ELSE [status |-> 503, body |-> "unhealthy"]

\* HealthController.readiness
readiness ==
  IF ~checkDatabase \/ ~checkRedis
  THEN [status |-> 503, body |-> "not_ready"]
  ELSE [status |-> 200, body |-> "ready"]

\* HealthController.liveness
liveness == [status |-> 200, body |-> "alive"]

\* the handler the router of the HealthController calls for a route
healthHandler(route) ==
  CASE route = "/" -> health
    [] route = "/ready" -> readiness
    [] route = "/live" -> liveness

\* GET on a health route: the request passes the rate limiter, which is
\* registered ahead of the controllers. A rejected request is answered 429 by
\* the limiter, one whose store command was refused goes to the exception
\* filters with the error, and an admitted one is answered by the handler.
Health(route, ip) ==
  /\ exitCode = "none" /\ httpServer = "listening"
  /\ LET req == [path |-> HealthPath(route), method |-> "GET", ip |-> ip,
                 token |-> "none"]
         t == getRateLimiter(req.path, req.method)
         x == <<StoreAfterInit(Self), t, keyGenerator(t, req)>>
         answer ==
           IF ~isInitialized'[Self] THEN healthHandler(route)
           ELSE IF decisions'[x] = decisions[x]
                THEN [status |-> 500, body |-> "error"]
           ELSE IF decisions'[x][Len(decisions'[x])].d = "reject"
                THEN [status |-> 429, body |-> "Too many requests"]
           ELSE healthHandler(route)
     IN /\ execute(Self, req)
        /\ response' = [route |-> route, status |-> answer.status,
                        body |-> answer.body]
  /\ UNCHANGED <<connected, config, initLog, dbConnected, httpServer,
                 isShuttingDown, shutdownPc, shutdownLog, exitCode, pending,
                 clsVars, cacheVars>>

\* what the process can be sent: the two signals and the two kinds of error
Signals == {"SIGTERM", "SIGINT", "uncaughtException", "unhandledRejection"}

\* the handlers setupGracefulShutdown registers are in place
handlersRegistered == Has(initLog, "_initServer")

\* the signals and errors that have reached the shutdown routine
signalsSoFar ==
  CountOf(shutdownLog, "httpServer.close") + CountOf(shutdownLog, "ignored")

\* a shutdown routine that never finds a shutdown in progress
shutdownInProgressNever == FALSE

\* the test at the head of the shutdown routine
shutdownInProgress == isShuttingDown

\* a signal or an error reaches the shutdown routine: a shutdown in progress
\* makes it log a warning and return; otherwise it sets the flag, calls
\* httpServer.close and databaseClient.disconnect and waits for the latter
Signal(sig) ==
  /\ exitCode = "none" /\ handlersRegistered
  /\ signalsSoFar < MaxSignals
  /\ IF shutdownInProgress
     THEN /\ shutdownLog' = Append(shutdownLog, "ignored")
          /\ UNCHANGED <<isShuttingDown, httpServer, shutdownPc>>
     ELSE /\ isShuttingDown' = TRUE
          /\ httpServer' = "closing"
          /\ shutdownLog' = shutdownLog \o
                              <<"httpServer.close", "databaseClient.disconnect">>
          /\ shutdownPc' = "databaseClient.disconnect"
  /\ UNCHANGED <<initLog, dbConnected, exitCode, response, pending, rlVars,
                 clsVars, cacheVars>>

\* a signal before setupGracefulShutdown has run ends the process at once
SignalUnhandled(sig) ==
  /\ exitCode = "none" /\ ~handlersRegistered
  /\ exitCode' = "killed"
  /\ UNCHANGED <<initLog, dbConnected, httpServer, isShuttingDown, shutdownPc,
                 shutdownLog, response, pending, rlVars, clsVars, cacheVars>>

\* databaseClient.disconnect settles: resolved, the routine goes on to
\* redisClient.disconnect; rejected, it goes to its catch block, which
\* schedules process.exit(1)
DatabaseDisconnectSettles(ok) ==
  /\ exitCode = "none" /\ shutdownPc = "databaseClient.disconnect"
  /\ IF ok
     THEN /\ dbConnected' = FALSE
          /\ shutdownLog' = Append(shutdownLog, "redisClient.disconnect")
          /\ shutdownPc' = "redisClient.disconnect"
     ELSE /\ shutdownPc' = "exit(1)"
          /\ UNCHANGED <<dbConnected, shutdownLog>>
  /\ UNCHANGED <<initLog, httpServer, isShuttingDown, exitCode, response,
                 pending, rlVars, clsVars, cacheVars>>

\* redisClient.disconnect settles: the client is dropped and the flag
\* cleared; the routine schedules process.exit(0)
RedisDisconnectSettles ==
  /\ exitCode = "none" /\ shutdownPc = "redisClient.disconnect"
  /\ connected' = [connected EXCEPT ![Self] = FALSE]
  /\ shutdownPc' = "exit(0)"
  /\ UNCHANGED <<isInitialized, storeBacked, hits, ttl, handling, decisions,
                 nreq, config, initLog, dbConnected, httpServer,
                 isShuttingDown, shutdownLog, exitCode, response, pending,
                 clsVars, cacheVars>>

\* the timer the routine has set fires: process.exit
ExitTimer ==
  /\ exitCode = "none" /\ shutdownPc \in {"exit(0)", "exit(1)"}
  /\ exitCode' = IF shutdownPc = "exit(0)" THEN "0" ELSE "1"
  /\ UNCHANGED <<initLog, dbConnected, httpServer, isShuttingDown, shutdownPc,
                 shutdownLog, response, pending, rlVars, clsVars, cacheVars>>

NextApp ==
  \/ \E ok \in BOOLEAN : AppInitDb(ok)
  \/ \E ok \in BOOLEAN : AppInitCache(ok)
  \/ AppInitRateLimiter
  \/ \E step \in {"_initMiddleware", "_initControllers",
                  "_initExceptionFilters"} : AppRegister(step)
  \/ AppInitServer
  \/ initCompleted /\ redisInstance /\ RedisConnect(Self)
  \/ initCompleted /\ redisInstance /\ RedisDrop(Self)
  \/ \E c \in BOOLEAN : DatabaseEvent(c)
  \/ \E route \in HealthRoutes, ip \in IPs : Health(route, ip)
  \/ exitCode = "none" /\ Tick
  \/ \E sig \in Signals : Signal(sig)
  \/ \E sig \in Signals : SignalUnhandled(sig)
  \/ \E ok \in BOOLEAN : DatabaseDisconnectSettles(ok)
  \/ RedisDisconnectSettles
  \/ ExitTimer

SpecApp == InitApp /\ [][NextApp]_vars

\* the promises the shutdown routine awaits settle and its timer fires
SpecAppFair ==
  /\ SpecApp
  /\ WF_vars(\E ok \in BOOLEAN : DatabaseDisconnectSettles(ok))
  /\ WF_vars(RedisDisconnectSettles)
  /\ WF_vars(ExitTimer)

----------------------------------------------------------------------------
\* ---- Claims about the life cycle of the server process -------------------

\* C31: every rate-limit counter is stored in Redis, so the count an
\* identity has accumulated in an open window is still the count in force
\* once the process has restarted within that window.
C31_CountersSurviveRestart ==
  /\ [](\A x \in CK : hits[x] > 0 => x[1] = "redis")
  /\ [][Restart("p1") =>
          \A t \in Tiers, k \in Keys :
            ttl[<<StoreOf("p1"), t, k>>] > 0 =>
              hits'[<<StoreAfterInit("p1")', t, k>>]
                = hits[<<StoreOf("p1"), t, k>>]]_vars

shutdownCalls ==
  LET called(c) == c # "ignored" IN SelectSeq(shutdownLog, called)

\* C33: once a signal or an uncaught error has reached the shutdown routine,
\* the routine stops the HTTP server, then closes the database connection,
\* then closes the Redis connection, and the process eventually exits; on
\* every path on which the routine ends the process, the one where closing
\* the database fails included, the Redis connection has been closed
C33_GracefulShutdown ==
  /\ [](shutdownCalls =
          SubSeq(<<"httpServer.close", "databaseClient.disconnect",
                   "redisClient.disconnect">>, 1, Len(shutdownCalls)))
  /\ [](exitCode \in {"0", "1"} /\ isShuttingDown =>
          Has(shutdownLog, "redisClient.disconnect"))
  /\ (isShuttingDown ~> exitCode # "none")

\* C34: GET /health is answered 200 with status healthy when both the
\* database and the Redis client report connected and 503 with status
\* unhealthy otherwise; GET /health/ready is answered 200 ready under the
\* same condition and 503 not_ready otherwise; GET /health/live is answered
\* 200 whatever the dependencies report
C34_HealthEndpoints ==
  [][ \A route \in HealthRoutes, ip \in IPs :
        Health(route, ip) =>
          LET up == dbConnected /\ connected[Self]
          IN CASE route = "/" ->
                    response'.status = (IF up THEN 200 ELSE 503)
                    /\ response'.body = (IF up THEN "healthy" ELSE "unhealthy")
               [] route = "/ready" ->
                    response'.status = (IF up THEN 200 ELSE 503)
                    /\ response'.body = (IF up THEN "ready" ELSE "not_ready")
               [] route = "/live" -> response'.status = 200
    ]_vars

\* the steps init has completed, without the mark of its rejection
initCompletedSteps ==
  LET completed(step) == step # "rejected" IN SelectSeq(initLog, completed)

\* C36: RestApplication.init connects the database, then the store, then
\* initializes the rate limiter, then registers middleware, controllers and
\* exception filters, and only then does the server listen. A store
\* connection that fails does not end start-up: the limiter is then built
\* with in-process counters and the later steps run. A database connection
\* that fails ends init: the server never listens.
C36_StartupOrder ==
  /\ [](initCompletedSteps =
          SubSeq(<<"_initDb", "_initCache", "_initRateLimiter",
                   "_initMiddleware", "_initControllers",
                   "_initExceptionFilters", "_initServer">>,
                 1, Len(initCompletedSteps)))
  /\ [](httpServer # "null" => Len(initCompletedSteps) = 7)
  /\ [](Has(initLog, "rejected") => httpServer = "null" /\ ~dbConnected)
  /\ []((Has(initLog, "_initRateLimiter") /\ ~initCompleted
           /\ exitCode = "none" /\ ~connected[Self]) =>
          isInitialized[Self] /\ ~storeBacked[Self])
  /\ [][ /\ AppInitDb(FALSE) => Has(initLog', "rejected")
         /\ AppInitCache(FALSE) => /\ initLog' = <<"_initDb", "_initCache">>
                                   /\ exitCode' = "none"
     ]_vars

\* the store connection failed at start-up and the server listens all the
\* same, its limiters counting in the memory of the process
C36_Witness ==
  /\ httpServer = "listening" /\ initLog = InitSteps
  /\ isInitialized[Self] /\ ~storeBacked[Self]

\* C37: the shutdown routine runs at most once. A signal or an error that
\* arrives while isShuttingDown is true is ignored: it calls nothing and
\* changes nothing but the log. databaseClient.disconnect and
\* redisClient.disconnect are each called at most once, as is
\* httpServer.close, and isShuttingDown never returns to false.
C37_ShutdownOnce ==
  /\ [](/\ CountOf(shutdownLog, "databaseClient.disconnect") <= 1
        /\ CountOf(shutdownLog, "redisClient.disconnect") <= 1
        /\ CountOf(shutdownLog, "httpServer.close") <= 1)
  /\ [][ /\ isShuttingDown => isShuttingDown'
         /\ \A sig \in Signals :
              (isShuttingDown /\ Signal(sig)) =>
                /\ shutdownLog' = Append(shutdownLog, "ignored")
                /\ UNCHANGED <<httpServer, shutdownPc, dbConnected, connected,
                               exitCode>>
     ]_vars

\* a second signal arrived during the shutdown and was ignored; the routine
\* has made each of its calls once
C37_Witness ==
  /\ isShuttingDown /\ Has(shutdownLog, "ignored")
  /\ shutdownCalls = <<"httpServer.close", "databaseClient.disconnect",
                       "redisClient.disconnect">>

\* C40: for one RateLimiterMiddleware instance (until the process restarts)
\* the four tier limiters are built exactly once, by the first initialize()
\* or execute(): every such call leaves the middleware initialized, and once
\* it is initialized isInitialized stays true, the store the limiters were
\* built with stays the same whatever the connection does, and a further
\* initialize() changes no counter
C40_InitializeOnce ==
  [][ /\ (Initialize("p1") \/ \E req \in Requests : Execute("p1", req)) =>
           isInitialized'["p1"]
      /\ (isInitialized["p1"] /\ ~Restart("p1")) =>
           /\ isInitialized'["p1"]
           /\ storeBacked'["p1"] = storeBacked["p1"]
      /\ (isInitialized["p1"] /\ Initialize("p1")) =>
           UNCHANGED <<hits, ttl, decisions, handling>>
    ]_vars

\* the limiters were built without a store and have counted a request, and the
\* client is connected now: building them again would choose the RedisStore
C40_Witness ==
  /\ isInitialized["p1"] /\ ~storeBacked["p1"] /\ connected["p1"]
  /\ \E x \in CK : x[1] = "p1" /\ hits[x] > 0

----------------------------------------------------------------------------
\* ---- Claims about the lists a rent offer mutation leaves in the cache ----

\* C35: when updateById moves a rent offer from city c1 to city c2 with the
\* store reachable, the city-scoped and premium list caches of c1 are
\* invalidated with those of c2: after the update no city or premium list
\* cached for c1, for whatever limit, still contains the moved offer, so
\* that a later findByCityId(c1) or findPremiumByCityId(c1) cannot return it
C35_MovedOfferLeavesOldCity ==
  [][ \A id \in OfferIds, dto \in UpdateRentOfferDtos :
        ( /\ OfferUpdateById(id, dto)
          /\ isConnected
          /\ id \in DOMAIN offers
          /\ "cityId" \in DOMAIN dto
          /\ cityExists(dto.cityId)
          /\ dto.cityId # offers[id].cityId ) =>
          \A l \in Limits :
            \A key \in { getCityCacheKey(offers[id].cityId, l),
                         getPremiumCacheKey(offers[id].cityId, l) } :
              LET cachedOffers == cacheGet(cache', key)
              IN cachedOffers # null =>
                   \A i \in 1..Len(cachedOffers[1]) : cachedOffers[1][i].id # id
    ]_vars

\* C39: the cached city list follows the rent offers: once a rent offer has
\* been created or deleted for city c with the store reachable, what the
\* next DefaultCityService.find() returns carries for c the rentOfferCount
\* of the rent offers as they are after the mutation
C39_CityListFollowsOffers ==
  [][ \A c \in CityIds :
        ( /\ isConnected
          /\ \/ \E dto \in CreateRentOfferDtos :
                  OfferCreate(dto) /\ dto.cityId = c /\ cityExists(c)
             \/ \E id \in DOMAIN offers :
                  OfferFindByIdAndDelete(id) /\ offers[id].cityId = c ) =>
          \A i \in 1..Len(cityFindReturns') :
            cityFindReturns'[i].id = c =>
              cityFindReturns'[i].rentOfferCount = rentOfferCount(c)'
    ]_vars

----------------------------------------------------------------------------
(* SpecFindOrCreate: find-or-create calls of several requests at the same  *)
(* time. A call is its lookup, then, when that found nothing, its create;  *)
(* the calls of other requests run between the two.                        *)

\* the ids the database gives the documents created here
FreshUserIds == {"u2", "u3"}
FreshCityIds == {"c3", "c4"}

\* DefaultUserService.findOrCreate up to the end of findByEmail
UserFindOrCreateFind(r, dto) ==
  /\ pending[r].pc = "idle"
  /\ LET existedUser == findByEmailReturns(dto.email)
     IN pending' = [pending EXCEPT ![r] =
                      IF existedUser # null
                      THEN [pc |-> "returned", key |-> dto.email,
                            returned |-> existedUser[1].id]
                      ELSE [pc |-> "user.create", key |-> dto.email,
                            returned |-> "nothing"]]
  /\ cache' = findByEmailCaches(cache, dto.email)
  /\ UNCHANGED <<users, offers, offerSeq, cities, nops, nreads, stage, deleting,
                 initLog, dbConnected, httpServer, isShuttingDown, shutdownPc,
                 shutdownLog, exitCode, response, rlVars, clsVars>>

\* the rest of DefaultUserService.findOrCreate: create. The schema of the
\* collection is not among the sources: where a document with the email
\* exists by now, userModel.create either fails on a unique index, and the
\* call rejects, or stores a second document.
UserFindOrCreateCreate(r) ==
  /\ pending[r].pc = "user.create"
  /\ \E unique \in BOOLEAN, id \in FreshUserIds \ DOMAIN users :
       IF unique /\ userByEmail(pending[r].key) # null
       THEN /\ pending' = [pending EXCEPT ![r].pc = "returned",
                                          ![r].returned = "error"]
            /\ UNCHANGED <<users, cache>>
       ELSE /\ users' = usersAfterCreate(id, [email |-> pending[r].key,
                                              name |-> "n1"])
            /\ cache' = invalidateUserCaches(cache, id)
            /\ pending' = [pending EXCEPT ![r].pc = "returned",
                                          ![r].returned = id]
  /\ UNCHANGED <<offers, offerSeq, cities, nops, nreads, stage, deleting,
                 initLog, dbConnected, httpServer, isShuttingDown, shutdownPc,
                 shutdownLog, exitCode, response, rlVars, clsVars>>

\* DefaultCityService.findByCityNameOrCreate up to the end of findByCityName
CityFindOrCreateFind(r, cityName) ==
  /\ pending[r].pc = "idle"
  /\ LET existedCity == findByCityNameReturns(cityName)
     IN pending' = [pending EXCEPT ![r] =
                      IF existedCity # null
                      THEN [pc |-> "returned", key |-> cityName,
                            returned |-> existedCity[1].id]
                      ELSE [pc |-> "city.create", key |-> cityName,
                            returned |-> "nothing"]]
  /\ cache' = findByCityNameCaches(cache, cityName)
  /\ UNCHANGED <<users, offers, offerSeq, cities, nops, nreads, stage, deleting,
                 initLog, dbConnected, httpServer, isShuttingDown, shutdownPc,
                 shutdownLog, exitCode, response, rlVars, clsVars>>

\* the rest of DefaultCityService.findByCityNameOrCreate: create, with the
\* same two outcomes for a name that exists by now; the dto of the call
\* carries the name that was looked up
CityFindOrCreateCreate(r) ==
  /\ pending[r].pc = "city.create"
  /\ \E unique \in BOOLEAN, id \in FreshCityIds \ DOMAIN cities :
       IF unique /\ cityByName(pending[r].key) # null
       THEN /\ pending' = [pending EXCEPT ![r].pc = "returned",
                                          ![r].returned = "error"]
            /\ UNCHANGED <<cities, cache, stage>>
       ELSE /\ cities' = [x \in DOMAIN cities \cup {id} |->
                            IF x = id THEN CityDoc(id, pending[r].key)
                            ELSE cities[x]]
            /\ cache' = invalidateList(cache)
            /\ stage' = [stage EXCEPT !["cities"] = stageAfterUpdate(@)]
            /\ pending' = [pending EXCEPT ![r].pc = "returned",
                                          ![r].returned = id]
  /\ UNCHANGED <<users, offers, offerSeq, nops, nreads, deleting,
                 initLog, dbConnected, httpServer, isShuttingDown, shutdownPc,
                 shutdownLog, exitCode, response, rlVars, clsVars>>

NextFindOrCreate ==
  \/ RedisConnect(Self)
  \/ RedisDrop(Self)
  \/ \E r \in Callers, dto \in CreateUserDtos : UserFindOrCreateFind(r, dto)
  \/ \E r \in Callers : UserFindOrCreateCreate(r)
  \/ \E r \in Callers, cityName \in CityNames : CityFindOrCreateFind(r, cityName)
  \/ \E r \in Callers : CityFindOrCreateCreate(r)

SpecFindOrCreate == InitServer /\ [][NextFindOrCreate]_vars

\* C38: when several findOrCreate calls for one email, or several
\* findByCityNameOrCreate calls for one city name, run at the same time, at
\* most one entity with that email or name is in the system of record, and
\* the callers that have returned were all given that one entity
C38_FindOrCreateUnique ==
  /\ \A email \in Emails :
       Cardinality({ id \in DOMAIN users : users[id].email = email }) <= 1
  /\ \A cityName \in CityNames :
       Cardinality({ id \in DOMAIN cities : cities[id].name = cityName }) <= 1
  /\ \A r1 \in Callers, r2 \in Callers :
       ( /\ pending[r1].pc = "returned" /\ pending[r2].pc = "returned"
         /\ pending[r1].key = pending[r2].key ) =>
         /\ pending[r1].returned # "error"
         /\ pending[r1].returned = pending[r2].returned

====
